---- MODULE Spec2Model ----
(***************************************************************************)
(* Navigation/session subsystem of better_django_tables                    *)
(* (view_mixins.py: SaveAndNextMixin, NavigationStorageMixin; conf.py).    *)
(*                                                                         *)
(* Python values: str, pk and URL values are TLA+ strings, None is the     *)
(* reserved string "None"; a dict is a function whose domain is its key    *)
(* set (the empty dict is <<>>); a list is a sequence; an int that may be  *)
(* None uses NoneInt.  A method becomes an operator of the same name that  *)
(* returns [ret, exc]: the returned value and the exception that escapes   *)
(* it ("None" when it returns normally).                                   *)
(* time.time() is the integer clock `now`; equal model timestamps stand    *)
(* for real float timestamps in either order.                              *)
(***************************************************************************)
EXTENDS Integers, Sequences, FiniteSets, TLC

VARIABLES
    session,   \* request.session: dict from session key to stored value
    now,       \* time.time()
    conf,      \* better_django_tables.conf, fixed at start-up
    last,      \* the call that has just run on the current view instance: what was
               \* called, with what, and its outcome; Idle between calls
    input,     \* arguments of the pure functions (specification SpecPure)
    run        \* the eviction scenario (specification SpecEvict); the requests in
               \* flight and their copies of the session (specification SpecRace)

vars == <<session, now, conf, last, input, run>>

----------------------------------------------------------------------------
(* Bounds of the model *)

MaxContexts == 2
MaxTime == 3
MaxLen == 3

(* Settings of conf.py, scaled down *)

NAVIGATION_SESSION_TIMEOUT == 1
NAVIGATION_MAX_PK_COUNT == 3
NAVIGATION_CONTEXT_WINDOW == 1
NAVIGATION_SESSION_KEY_PREFIX == "bdt_nav_"

----------------------------------------------------------------------------
(* Python values *)

None == "None"
NoneInt == 0 - 1
EmptyDict == <<>>

Truthy(s) == s # None /\ s # ""

dict_get(d, k, default) == IF k \in DOMAIN d THEN d[k] ELSE default

dict_del(d, ks) == [k \in (DOMAIN d) \ ks |-> d[k]]

dict_set(d, k, v) == (k :> v) @@ d

startswith(s, prefix) ==
    Len(s) >= Len(prefix) /\ SubSeq(s, 1, Len(prefix)) = prefix

Min(a, b) == IF a <= b THEN a ELSE b
Max(a, b) == IF a >= b THEN a ELSE b

\* list.index(x): 0-based index of the first occurrence; NoneInt stands for ValueError
list_index(xs, x) ==
    IF \E i \in 1..Len(xs) : xs[i] = x
    THEN (CHOOSE i \in 1..Len(xs) : xs[i] = x /\ \A j \in 1..(i - 1) : xs[j] # x) - 1
    ELSE NoneInt

\* xs[start:end] for 0 <= start and 0 <= end
list_slice(xs, start, end) == SubSeq(xs, start + 1, Min(end, Len(xs)))

Returns(v) == [ret |-> v, exc |-> None]
Raises(e) == [ret |-> None, exc |-> e]

----------------------------------------------------------------------------
(* Inputs *)

Tokens == {"a", "b", "c"}
Pks == <<"10", "20", "30", "40">>
ListUrl == "http://testserver/orders/"

\* request.GET of an edit-view or list-view request
RequestGETs == {EmptyDict} \cup {[nav_token |-> t] : t \in {"a", "b", ""}}

----------------------------------------------------------------------------
(* SaveAndNextMixin: the read side (edit views) *)

\* request.GET.get("nav_token")
get_navigation_token(request) == dict_get(request.GET, "nav_token", None)

SaveAndNextMixin_get_navigation_session_key(request, nav_token) ==
    LET tok == IF nav_token = None THEN get_navigation_token(request) ELSE nav_token
    IN  IF Truthy(tok)
        THEN NAVIGATION_SESSION_KEY_PREFIX \o "token_" \o tok
        ELSE None

\* the entry expires one tick early: age >= timeout
get_navigation_data_expires_at_timeout(sess, request, t) ==
    LET session_key == SaveAndNextMixin_get_navigation_session_key(request, None)
        nav_data == dict_get(sess, session_key, EmptyDict)
        age == t - dict_get(nav_data, "timestamp", 0)
    IN  IF ~Truthy(session_key) THEN EmptyDict
        ELSE IF nav_data # EmptyDict /\ age >= conf.NAVIGATION_SESSION_TIMEOUT
             THEN EmptyDict
             ELSE nav_data

get_navigation_data(sess, request, t) ==
    LET session_key == SaveAndNextMixin_get_navigation_session_key(request, None)
        nav_data == dict_get(sess, session_key, EmptyDict)
        timestamp == dict_get(nav_data, "timestamp", 0)
        age == t - timestamp
    IN  IF ~Truthy(session_key) THEN EmptyDict
        ELSE IF nav_data # EmptyDict /\ age > conf.NAVIGATION_SESSION_TIMEOUT
             THEN EmptyDict
             ELSE nav_data

get_navigation_pks(sess, request, t) ==
    dict_get(get_navigation_data(sess, request, t), "pks", <<>>)

\* the ValueError of list.index is not caught
get_current_position_uncaught(sess, request, view, t) ==
    IF view.object_pk = None THEN Returns(<<NoneInt, NoneInt>>)
    ELSE LET pks == get_navigation_pks(sess, request, t)
             current_index == list_index(pks, view.object_pk)
         IN  IF current_index = NoneInt
             THEN Raises("ValueError")
             ELSE Returns(<<current_index, Len(pks)>>)

\* the index returned counts from 1
get_current_position_one_based(sess, request, view, t) ==
    IF view.object_pk = None THEN Returns(<<NoneInt, NoneInt>>)
    ELSE LET pks == get_navigation_pks(sess, request, t)
             current_index == list_index(pks, view.object_pk)
         IN  IF current_index = NoneInt
             THEN Returns(<<NoneInt, NoneInt>>)
             ELSE Returns(<<current_index + 1, Len(pks)>>)

\* view.object_pk = None: the view has no object (self.object is None)
get_current_position(sess, request, view, t) ==
    IF view.object_pk = None THEN Returns(<<NoneInt, NoneInt>>)
    ELSE LET pks == get_navigation_pks(sess, request, t)
             current_index == list_index(pks, view.object_pk)
         IN  IF current_index = NoneInt      \* ValueError, caught
             THEN Returns(<<NoneInt, NoneInt>>)
             ELSE Returns(<<current_index, Len(pks)>>)

\* the index is one too low: the key returned is the current key
get_next_pk_stays(sess, request, view, t) ==
    LET pks == get_navigation_pks(sess, request, t)
        current_index == list_index(pks, view.object_pk)
    IN  IF pks = <<>> THEN Returns(None)
        ELSE IF view.object_pk = None THEN Raises("AttributeError")
        ELSE IF current_index # NoneInt /\ current_index < Len(pks) - 1
             THEN Returns(pks[current_index + 1])
             ELSE Returns(None)

\* at the last index the next key wraps around to the first
get_next_pk_wraps(sess, request, view, t) ==
    LET pks == get_navigation_pks(sess, request, t)
        current_index == list_index(pks, view.object_pk)
    IN  IF pks = <<>> THEN Returns(None)
        ELSE IF view.object_pk = None THEN Raises("AttributeError")
        ELSE IF current_index # NoneInt
             THEN Returns(pks[((current_index + 1) % Len(pks)) + 1])
             ELSE Returns(None)

get_next_pk(sess, request, view, t) ==
    LET pks == get_navigation_pks(sess, request, t)
        current_index == list_index(pks, view.object_pk)
    IN  IF pks = <<>> THEN Returns(None)
        ELSE IF view.object_pk = None THEN Raises("AttributeError")
        ELSE IF current_index # NoneInt /\ current_index < Len(pks) - 1
             THEN Returns(pks[(current_index + 1) + 1])
             ELSE Returns(None)

get_previous_pk(sess, request, view, t) ==
    LET pks == get_navigation_pks(sess, request, t)
        current_index == list_index(pks, view.object_pk)
    IN  IF pks = <<>> THEN Returns(None)
        ELSE IF view.object_pk = None THEN Raises("AttributeError")
        ELSE IF current_index # NoneInt /\ current_index > 0
             THEN Returns(pks[(current_index - 1) + 1])
             ELSE Returns(None)

py_or(a, b) == IF Truthy(a) THEN a ELSE b

str_contains(s, ch) == \E i \in 1..Len(s) : SubSeq(s, i, i) = ch

\* QueryDict.urlencode() of the parameters the model uses, in URL order
QueryParamOrder == <<"nav_token", "q", "page", "per_page">>

RECURSIVE join_params(_, _)
join_params(q, ks) ==
    IF ks = <<>> THEN ""
    ELSE LET kv == Head(ks) \o "=" \o q[Head(ks)]
         IN  IF Len(ks) = 1 THEN kv ELSE kv \o "&" \o join_params(q, Tail(ks))

urlencode(q) == join_params(q, SelectSeq(QueryParamOrder, LAMBDA k : k \in DOMAIN q))

\* the query parameters of the request are not carried over
get_navigation_url_drops_query(request, view, pk) ==
    IF ~Truthy(pk) THEN Returns(None)
    ELSE IF view.lookup.status = "DoesNotExist" THEN Returns(None)
    ELSE IF view.lookup.status # "found" THEN Raises(view.lookup.status)
    ELSE Returns(view.lookup.url)

\* view.lookup is what self.model.objects.get(pk=pk).get_absolute_url() does:
\* [status |-> "found", url |-> u], [status |-> "DoesNotExist"] or
\* [status |-> e] for any other exception e of the lookup
get_navigation_url(request, view, pk) ==
    IF ~Truthy(pk) THEN Returns(None)
    ELSE IF view.lookup.status = "DoesNotExist" THEN Returns(None)
    ELSE IF view.lookup.status # "found" THEN Raises(view.lookup.status)
    ELSE LET base_url == view.lookup.url
             query_params == dict_del(request.GET, {"page", "per_page"})
             separator == IF str_contains(base_url, "?") THEN "&" ELSE "?"
         IN  IF query_params # EmptyDict
             THEN Returns(base_url \o separator \o urlencode(query_params))
             ELSE Returns(base_url)

\* the next parameter is looked at before the entry's referrer_url
get_close_url_next_first(sess, request, view, t) ==
    LET nav_data == get_navigation_data(sess, request, t)
        referrer_url == dict_get(nav_data, "referrer_url", None)
        next_url == py_or(dict_get(request.GET, "next", None),
                          dict_get(request.POST, "next", None))
    IN  IF Truthy(next_url) THEN next_url
        ELSE IF Truthy(referrer_url) THEN referrer_url
        ELSE IF view.list_url # None THEN view.list_url
        ELSE "/"

\* view.list_url is reverse("<app_label>:<model_name>_list"), None when it raises
get_close_url(sess, request, view, t) ==
    LET nav_data == get_navigation_data(sess, request, t)
        referrer_url == dict_get(nav_data, "referrer_url", None)
        next_url == py_or(dict_get(request.GET, "next", None),
                          dict_get(request.POST, "next", None))
    IN  IF Truthy(referrer_url) THEN referrer_url
        ELSE IF Truthy(next_url) THEN next_url
        ELSE IF view.list_url # None THEN view.list_url
        ELSE "/"

\* None where the code has a dict or None (no such dict of the model is empty)
NoneDict == <<>>

\* view.lookups[pk] is what self.model.objects.get(pk=pk).get_absolute_url() does
\* for the record pk; the view with that outcome as its lookup
lookup_of(view, pk) ==
    [view EXCEPT !.lookup = dict_get(view.lookups, pk, [status |-> "DoesNotExist"])]

\* the context's "save_and_next" entry; super().get_context_data() is left out
SaveAndNextMixin_get_context_data(sess, request, view, t) ==
    LET next_pk == get_next_pk(sess, request, view, t)
        previous_pk == get_previous_pk(sess, request, view, t)
        position == get_current_position(sess, request, view, t)
        current_index == position.ret[1]
        total_count == position.ret[2]
        next_url == get_navigation_url(request, lookup_of(view, next_pk.ret),
                                       next_pk.ret)
        previous_url == get_navigation_url(request, lookup_of(view, previous_pk.ret),
                                           previous_pk.ret)
    IN  IF ~view.navigation_enabled THEN Returns(EmptyDict)
        ELSE IF next_pk.exc # None THEN next_pk
        ELSE IF previous_pk.exc # None THEN previous_pk
        ELSE IF position.exc # None THEN position
        ELSE IF next_url.exc # None THEN next_url
        ELSE IF previous_url.exc # None THEN previous_url
        ELSE Returns(
            [save_and_next |->
                [enabled |-> TRUE,
                 form_id |-> view.navigation_form_id,
                 close_url |-> get_close_url(sess, request, view, t),
                 next |-> [pk |-> next_pk.ret,
                           url |-> next_url.ret,
                           available |-> next_pk.ret # None],
                 previous |-> [pk |-> previous_pk.ret,
                               url |-> previous_url.ret,
                               available |-> previous_pk.ret # None],
                 position |-> IF current_index # NoneInt
                              THEN [current |-> current_index + 1,
                                    total |-> total_count]
                              ELSE NoneDict]])

\* save_and_close is looked for first, save_and_next last
form_valid_close_first(sess, request, view, t) ==
    LET response == view.success_url
        next_pk == get_next_pk(sess, request, view, t)
        next_url == get_navigation_url(request, lookup_of(view, next_pk.ret),
                                       next_pk.ret)
        previous_pk == get_previous_pk(sess, request, view, t)
        previous_url == get_navigation_url(request, lookup_of(view, previous_pk.ret),
                                           previous_pk.ret)
        close_url == get_close_url(sess, request, view, t)
    IN  IF ~view.navigation_enabled THEN Returns(response)
        ELSE IF "save_and_close" \in DOMAIN request.POST
             THEN IF Truthy(close_url) THEN Returns(close_url) ELSE Returns(response)
        ELSE IF "save_and_continue" \in DOMAIN request.POST
             THEN Returns(request.path)
        ELSE IF "save_and_previous" \in DOMAIN request.POST
             THEN IF previous_pk.exc # None THEN previous_pk
                  ELSE IF previous_url.exc # None THEN previous_url
                  ELSE IF Truthy(previous_url.ret) THEN Returns(previous_url.ret)
                  ELSE Returns(response)
        ELSE IF "save_and_next" \in DOMAIN request.POST
             THEN IF next_pk.exc # None THEN next_pk
                  ELSE IF next_url.exc # None THEN next_url
                  ELSE IF Truthy(next_url.ret) THEN Returns(next_url.ret)
                  ELSE Returns(response)
        ELSE Returns(response)

\* The URL the response goes to: redirect(url) is written url, and the response
\* of super().form_valid(form) is the redirect to view.success_url
form_valid(sess, request, view, t) ==
    LET response == view.success_url
        next_pk == get_next_pk(sess, request, view, t)
        next_url == get_navigation_url(request, lookup_of(view, next_pk.ret),
                                       next_pk.ret)
        previous_pk == get_previous_pk(sess, request, view, t)
        previous_url == get_navigation_url(request, lookup_of(view, previous_pk.ret),
                                           previous_pk.ret)
        close_url == get_close_url(sess, request, view, t)
    IN  IF ~view.navigation_enabled THEN Returns(response)
        ELSE IF "save_and_next" \in DOMAIN request.POST
             THEN IF next_pk.exc # None THEN next_pk
                  ELSE IF next_url.exc # None THEN next_url
                  ELSE IF Truthy(next_url.ret) THEN Returns(next_url.ret)
                  ELSE Returns(response)
        ELSE IF "save_and_previous" \in DOMAIN request.POST
             THEN IF previous_pk.exc # None THEN previous_pk
                  ELSE IF previous_url.exc # None THEN previous_url
                  ELSE IF Truthy(previous_url.ret) THEN Returns(previous_url.ret)
                  ELSE Returns(response)
        ELSE IF "save_and_continue" \in DOMAIN request.POST
             THEN Returns(request.path)
        ELSE IF "save_and_close" \in DOMAIN request.POST
             THEN IF Truthy(close_url) THEN Returns(close_url) ELSE Returns(response)
        ELSE Returns(response)

----------------------------------------------------------------------------
(* NavigationStorageMixin: the write side (list views) *)

get_navigation_max_pk_count(view) ==
    IF view.navigation_max_pk_count # NoneInt
    THEN view.navigation_max_pk_count
    ELSE conf.NAVIGATION_MAX_PK_COUNT

get_navigation_context_window(view) ==
    IF view.navigation_context_window # NoneInt
    THEN view.navigation_context_window
    ELSE conf.NAVIGATION_CONTEXT_WINDOW

\* no fallback key: an empty token has no key, as on the read side
NavigationStorageMixin_get_navigation_session_key_no_fallback(nav_token) ==
    IF Truthy(nav_token)
    THEN NAVIGATION_SESSION_KEY_PREFIX \o "token_" \o nav_token
    ELSE None

NavigationStorageMixin_get_navigation_session_key(nav_token) ==
    IF Truthy(nav_token)
    THEN NAVIGATION_SESSION_KEY_PREFIX \o "token_" \o nav_token
    ELSE NAVIGATION_SESSION_KEY_PREFIX \o "token_default"

\* the request's token is reused only while its entry is live
get_or_create_navigation_token_live_only(cached, request, sess, uuid) ==
    LET nav_token == dict_get(request.GET, "nav_token", None)
        session_key == NAVIGATION_SESSION_KEY_PREFIX \o "token_" \o nav_token
    IN  IF Truthy(cached) THEN [ret |-> cached, nav_token |-> cached]
        ELSE IF /\ Truthy(nav_token)
                /\ session_key \in DOMAIN sess
                /\ now - sess[session_key].timestamp <= conf.NAVIGATION_SESSION_TIMEOUT
             THEN [ret |-> nav_token, nav_token |-> cached]
             ELSE [ret |-> uuid, nav_token |-> uuid]

\* cached is self._nav_token (None on a new view instance); uuid is the value
\* uuid.uuid4().hex[:navigation_token_length] would produce.
\* Returns the token and the new self._nav_token.
get_or_create_navigation_token(cached, request, sess, uuid) ==
    LET nav_token == dict_get(request.GET, "nav_token", None)
        session_key == NavigationStorageMixin_get_navigation_session_key(nav_token)
    IN  IF Truthy(cached) THEN [ret |-> cached, nav_token |-> cached]
        ELSE IF Truthy(nav_token) /\ session_key \in DOMAIN sess
             THEN [ret |-> nav_token, nav_token |-> cached]
             ELSE [ret |-> uuid, nav_token |-> uuid]

\* a list of exactly max_count keys is windowed too: len(all_pks) < max_count
limit_pks_around_current_strict(view, all_pks, current_pk) ==
    LET max_count == get_navigation_max_pk_count(view)
        current_index == list_index(all_pks, current_pk)
        context_window == get_navigation_context_window(view)
        start == Max(0, current_index - context_window)
        end0 == Min(Len(all_pks), current_index + context_window + 1)
        end == IF end0 - start > max_count THEN start + max_count ELSE end0
    IN  IF max_count = 0 THEN all_pks
        ELSE IF Len(all_pks) < max_count THEN all_pks
        ELSE IF current_pk = None THEN list_slice(all_pks, 0, max_count)
        ELSE IF current_index = NoneInt
             THEN list_slice(all_pks, 0, max_count)
             ELSE list_slice(all_pks, start, end)

\* a window larger than max_count is cut at its start: the keys after the
\* current key are kept
limit_pks_around_current_keeps_successors(view, all_pks, current_pk) ==
    LET max_count == get_navigation_max_pk_count(view)
        current_index == list_index(all_pks, current_pk)
        context_window == get_navigation_context_window(view)
        start0 == Max(0, current_index - context_window)
        end == Min(Len(all_pks), current_index + context_window + 1)
        start == IF end - start0 > max_count THEN end - max_count ELSE start0
    IN  IF max_count = 0 THEN all_pks
        ELSE IF Len(all_pks) <= max_count THEN all_pks
        ELSE IF current_pk = None THEN list_slice(all_pks, 0, max_count)
        ELSE IF current_index = NoneInt
             THEN list_slice(all_pks, 0, max_count)
             ELSE list_slice(all_pks, start, end)

\* a missing current key keeps the last max_count keys instead of the first
limit_pks_around_current_suffix(view, all_pks, current_pk) ==
    LET max_count == get_navigation_max_pk_count(view)
        current_index == list_index(all_pks, current_pk)
        context_window == get_navigation_context_window(view)
        start == Max(0, current_index - context_window)
        end0 == Min(Len(all_pks), current_index + context_window + 1)
        end == IF end0 - start > max_count THEN start + max_count ELSE end0
    IN  IF max_count = 0 THEN all_pks
        ELSE IF Len(all_pks) <= max_count THEN all_pks
        ELSE IF current_pk = None THEN list_slice(all_pks, 0, max_count)
        ELSE IF current_index = NoneInt
             THEN list_slice(all_pks, Len(all_pks) - max_count, Len(all_pks))
             ELSE list_slice(all_pks, start, end)

limit_pks_around_current(view, all_pks, current_pk) ==
    LET max_count == get_navigation_max_pk_count(view)
        current_index == list_index(all_pks, current_pk)
        context_window == get_navigation_context_window(view)
        start == Max(0, current_index - context_window)
        end0 == Min(Len(all_pks), current_index + context_window + 1)
        end == IF end0 - start > max_count THEN start + max_count ELSE end0
    IN  IF max_count = 0 THEN all_pks
        ELSE IF Len(all_pks) <= max_count THEN all_pks
        ELSE IF current_pk = None THEN list_slice(all_pks, 0, max_count)
        ELSE IF current_index = NoneInt        \* ValueError, caught
             THEN list_slice(all_pks, 0, max_count)
             ELSE list_slice(all_pks, start, end)

is_nav_key(key) == startswith(key, NAVIGATION_SESSION_KEY_PREFIX)

\* the keys of nav_contexts: navigation keys whose value is a non-empty dict
nav_context_keys(sess) ==
    {key \in DOMAIN sess : is_nav_key(key) /\ sess[key] # EmptyDict}

nav_timestamp(sess, key) == dict_get(sess[key], "timestamp", 0)

\* an entry is expired one tick early: age >= timeout
expired_keys_at_timeout(sess, t) ==
    {key \in nav_context_keys(sess) :
        t - nav_timestamp(sess, key) >= conf.NAVIGATION_SESSION_TIMEOUT}

\* Strategy 1: the keys whose age exceeds the timeout
expired_keys(sess, t) ==
    {key \in nav_context_keys(sess) :
        t - nav_timestamp(sess, key) > conf.NAVIGATION_SESSION_TIMEOUT}

\* one context is deleted, however many there are
num_to_remove_single(remaining, max_contexts) == 1

\* no room is reserved for the entry about to be written
num_to_remove_no_reserve(remaining, max_contexts) ==
    Cardinality(remaining) - max_contexts

\* Strategy 2: the number of sorted contexts that are deleted
num_to_remove(remaining, max_contexts) == Cardinality(remaining) - max_contexts + 1

\* the sort is newest first: the newest contexts are deleted
newest_contexts(sess, remaining, n) ==
    {R \in SUBSET remaining :
        /\ Cardinality(R) = Min(n, Cardinality(remaining))
        /\ \A a \in R, b \in remaining \ R :
              nav_timestamp(sess, a) >= nav_timestamp(sess, b)}

\* Strategy 2: nav_contexts[:num_to_remove] after the sort by timestamp, as a set
\* of keys; entries of equal timestamp may sort either way
oldest_contexts(sess, remaining, n) ==
    {R \in SUBSET remaining :
        /\ Cardinality(R) = Min(n, Cardinality(remaining))
        /\ \A a \in R, b \in remaining \ R :
              nav_timestamp(sess, a) <= nav_timestamp(sess, b)}

\* Strategy 1 flushes the whole session when an entry has expired
cleanup_expired_navigation_data_flushes(sess, t, force) ==
    LET nav_contexts == nav_context_keys(sess)
        max_contexts == conf.NAVIGATION_MAX_CONTEXTS
        expired == expired_keys(sess, t)
        remaining == nav_contexts \ expired
        after_expiry == IF expired # {} THEN dict_del(sess, DOMAIN sess \ remaining)
                        ELSE sess
    IN  IF ~force /\ (max_contexts = 0 \/ Cardinality(nav_contexts) < max_contexts)
        THEN {sess}
        ELSE IF max_contexts > 0 /\ Cardinality(remaining) >= max_contexts
             THEN {dict_del(after_expiry, R) :
                      R \in oldest_contexts(sess, remaining,
                                            num_to_remove(remaining, max_contexts))}
             ELSE {after_expiry}

\* the body runs on every call, whatever force and the number of contexts
cleanup_expired_navigation_data_eager(sess, t, force) ==
    LET nav_contexts == nav_context_keys(sess)
        max_contexts == conf.NAVIGATION_MAX_CONTEXTS
        expired == expired_keys(sess, t)
        remaining == nav_contexts \ expired
        after_expiry == dict_del(sess, expired)
    IN  IF max_contexts > 0 /\ Cardinality(remaining) >= max_contexts
        THEN {dict_del(after_expiry, R) :
                 R \in oldest_contexts(sess, remaining,
                                       num_to_remove(remaining, max_contexts))}
        ELSE {after_expiry}

\* The sessions cleanup_expired_navigation_data can leave behind
cleanup_expired_navigation_data(sess, t, force) ==
    LET nav_contexts == nav_context_keys(sess)
        max_contexts == conf.NAVIGATION_MAX_CONTEXTS
        expired == expired_keys(sess, t)
        remaining == nav_contexts \ expired
        after_expiry == dict_del(sess, expired)
    IN  IF ~force /\ (max_contexts = 0 \/ Cardinality(nav_contexts) < max_contexts)
        THEN {sess}
        ELSE IF max_contexts > 0 /\ Cardinality(remaining) >= max_contexts
             THEN {dict_del(after_expiry, R) :
                      R \in oldest_contexts(sess, remaining,
                                            num_to_remove(remaining, max_contexts))}
             ELSE {after_expiry}

\* the entry is written first and cleanup runs after the write
store_navigation_pks_writes_first(sess, t, t_write, view, request, pks, nav_token, current_pk) ==
    LET limited_pks == limit_pks_around_current(view, pks, current_pk)
        session_key == NavigationStorageMixin_get_navigation_session_key(nav_token)
        nav_data == [pks |-> limited_pks,
                     timestamp |-> t_write,
                     total_count |-> Len(pks),
                     limited |-> Len(limited_pks) < Len(pks),
                     referrer_url |-> request.uri]
    IN  IF ~view.enable_navigation_storage THEN {sess}
        ELSE cleanup_expired_navigation_data(
                 dict_set(sess, session_key, nav_data), t_write, FALSE)

\* total_count counts the keys that are stored, not the keys supplied
store_navigation_pks_counts_stored(sess, t, t_write, view, request, pks, nav_token, current_pk) ==
    LET limited_pks == limit_pks_around_current(view, pks, current_pk)
        session_key == NavigationStorageMixin_get_navigation_session_key(nav_token)
        nav_data == [pks |-> limited_pks,
                     timestamp |-> t_write,
                     total_count |-> Len(limited_pks),
                     limited |-> Len(limited_pks) < Len(limited_pks),
                     referrer_url |-> request.uri]
    IN  IF ~view.enable_navigation_storage THEN {sess}
        ELSE {dict_set(cleaned, session_key, nav_data) :
                 cleaned \in cleanup_expired_navigation_data(sess, t, FALSE)}

\* t is time.time() when cleanup reads it, t_write when the entry is built.
\* The sessions store_navigation_pks can leave behind.
store_navigation_pks(sess, t, t_write, view, request, pks, nav_token, current_pk) ==
    LET limited_pks == limit_pks_around_current(view, pks, current_pk)
        session_key == NavigationStorageMixin_get_navigation_session_key(nav_token)
        nav_data == [pks |-> limited_pks,
                     timestamp |-> t_write,
                     total_count |-> Len(pks),
                     limited |-> Len(limited_pks) < Len(pks),
                     referrer_url |-> request.uri]
    IN  IF ~view.enable_navigation_storage THEN {sess}
        ELSE {dict_set(cleaned, session_key, nav_data) :
                 cleaned \in cleanup_expired_navigation_data(sess, t, FALSE)}

----------------------------------------------------------------------------
(* The session of one client: requests and direct calls, one at a time *)

Idle == [op |-> "idle"]
NoInput == [op |-> "none"]
NoRun == [stored |-> <<>>, expired_seen |-> FALSE]

\* hex strings uuid4 can yield that are not in use (uuid4 values do not repeat)
unused_tokens(sess, request) ==
    {tok \in Tokens :
        /\ NavigationStorageMixin_get_navigation_session_key(tok) \notin DOMAIN sess
        /\ tok # get_navigation_token(request)}

ListRequest(GET) == [GET |-> GET, POST |-> EmptyDict, uri |-> ListUrl]

\* the list views of the application
ListViews ==
    [enable_navigation_storage : BOOLEAN,
     has_object_list : BOOLEAN,
     navigation_max_pk_count : {NoneInt},
     navigation_context_window : {NoneInt}]

EditRequest(GET) == [GET |-> GET, POST |-> EmptyDict, uri |-> "/orders/edit/"]

Lookups ==
    {[status |-> "found", url |-> "/orders/20/edit/"],
     [status |-> "found", url |-> "/orders/edit/?id=20"],
     [status |-> "DoesNotExist"],
     [status |-> "AttributeError"]}

EditView(object_pk) ==
    [object_pk |-> object_pk, lookup |-> [status |-> "DoesNotExist"], list_url |-> None]

CloseGETs == RequestGETs \cup {[nav_token |-> "a", next |-> "/x"], [next |-> "/x"]}
ClosePOSTs == {EmptyDict, [next |-> "/y"]}
ListUrls == {None, "/orders/"}

UrlGETs ==
    {EmptyDict, [nav_token |-> "a"], [nav_token |-> "a", page |-> "2"],
     [page |-> "2", per_page |-> "10"]}

ObjectPks == {"10", "20", "30", "40", None}

\* the edit URL of a record that resolves
edit_url(pk) == "/orders/" \o pk \o "/edit/"

\* what the lookup of each record does: all records resolve, the record 30 is
\* deleted, or the URL of the record 30 cannot be reversed
LookupMaps ==
    {[pk \in {"10", "20", "30", "40"} |->
         IF pk = "30" THEN at30 ELSE [status |-> "found", url |-> edit_url(pk)]] :
     at30 \in {[status |-> "found", url |-> edit_url("30")],
               [status |-> "DoesNotExist"],
               [status |-> "NoReverseMatch"]}}

\* an edit view (UpdateView) of the record object_pk
EditViews ==
    {[object_pk |-> object_pk, lookup |-> [status |-> "DoesNotExist"],
      list_url |-> "/orders/", lookups |-> lookups,
      navigation_enabled |-> enabled, navigation_form_id |-> None,
      success_url |-> "/orders/saved/"] :
     object_pk \in ObjectPks, lookups \in LookupMaps, enabled \in BOOLEAN}

FormGETs ==
    {EmptyDict, [nav_token |-> "a"], [nav_token |-> "b"],
     [nav_token |-> "a", q |-> "x", page |-> "2", per_page |-> "10"]}

\* the names of the save buttons a POST can carry: none, one, or several
ButtonSets ==
    {{}, {"save_and_next"}, {"save_and_previous"}, {"save_and_continue"},
     {"save_and_close"},
     {"save_and_next", "save_and_previous"},
     {"save_and_previous", "save_and_continue"},
     {"save_and_continue", "save_and_close"},
     {"save_and_next", "save_and_previous", "save_and_continue", "save_and_close"}}

\* the POST of the edit form
FormPOSTs == {[name \in buttons |-> ""] : buttons \in ButtonSets}

Init ==
    /\ session = EmptyDict
    /\ now = 0
    /\ conf \in [NAVIGATION_MAX_CONTEXTS : 0..MaxContexts,
                 NAVIGATION_SESSION_TIMEOUT : {NAVIGATION_SESSION_TIMEOUT},
                 NAVIGATION_MAX_PK_COUNT : {NAVIGATION_MAX_PK_COUNT},
                 NAVIGATION_CONTEXT_WINDOW : {NAVIGATION_CONTEXT_WINDOW}]
    /\ last = Idle
    /\ input = NoInput
    /\ run = NoRun

\* the clock advances between calls
Tick ==
    /\ last = Idle
    /\ now < MaxTime
    /\ now' = now + 1
    /\ UNCHANGED <<session, conf, last, input, run>>

\* the call returns to its caller
Return ==
    /\ last # Idle
    /\ last' = Idle
    /\ UNCHANGED <<session, now, conf, input, run>>

\* NavigationStorageMixin.get_table_kwargs, then .get_context_data, of one view
\* instance: the token is resolved (twice), the keys of the list are stored
ListViewRequest ==
    \E GET \in RequestGETs, view \in ListViews, uuid \in Tokens, d \in {0, 1} :
        LET request == ListRequest(GET)
            kw == IF view.enable_navigation_storage
                  THEN get_or_create_navigation_token(None, request, session, uuid)
                  ELSE [ret |-> None, nav_token |-> None]
            tk == get_or_create_navigation_token(kw.nav_token, request, session, uuid)
            stores == view.enable_navigation_storage /\ view.has_object_list
        IN  /\ last = Idle
            /\ now + d <= MaxTime
            /\ stores \/ d = 0
            /\ (stores /\ tk.ret = uuid) => uuid \in unused_tokens(session, request)
            /\ session' \in (IF stores
                             THEN store_navigation_pks(session, now, now + d, view,
                                                       request, Pks, tk.ret, None)
                             ELSE {session})
            /\ now' = now + d
            /\ last' = [op |-> "list_view", GET |-> GET, stored |-> stores,
                        nav_token |-> IF stores THEN tk.ret ELSE None]
            /\ UNCHANGED <<conf, input, run>>

\* the view of a direct store_navigation_pks call
StoreView(enable) ==
    [enable_navigation_storage |-> enable, has_object_list |-> TRUE,
     navigation_max_pk_count |-> NoneInt,
     navigation_context_window |-> NoneInt]

\* store_navigation_pks called directly, with any token, by a view that has
\* storage enabled or not
StoreNavigationPks ==
    \E nav_token \in Tokens \cup {None}, current_pk \in {None}, d \in {0, 1},
       enable \in BOOLEAN :
        LET request == ListRequest(EmptyDict)
            view == StoreView(enable)
        IN  /\ last = Idle
            /\ now + d <= MaxTime
            /\ enable \/ d = 0
            /\ session' \in store_navigation_pks(session, now, now + d, view,
                                                 request, Pks, nav_token, current_pk)
            /\ now' = now + d
            /\ last' = [op |-> "store_navigation_pks", stored |-> enable,
                        nav_token |-> nav_token]
            /\ UNCHANGED <<conf, input, run>>

CleanupExpiredNavigationData ==
    \E force \in BOOLEAN :
        /\ last = Idle
        /\ session' \in cleanup_expired_navigation_data(session, now, force)
        /\ last' = [op |-> "cleanup_expired_navigation_data", force |-> force,
                    removed |-> (DOMAIN session) \ (DOMAIN session')]
        /\ UNCHANGED <<now, conf, input, run>>

GetOrCreateNavigationToken ==
    \E GET \in RequestGETs, uuid \in Tokens :
        LET request == ListRequest(GET)
            tk == get_or_create_navigation_token(None, request, session, uuid)
        IN  /\ last = Idle
            /\ tk.ret = uuid => uuid \in unused_tokens(session, request)
            /\ last' = [op |-> "get_or_create_navigation_token", GET |-> GET,
                        ret |-> tk.ret]
            /\ UNCHANGED <<session, now, conf, input, run>>

\* reading an entry resets its clock (least recently used, by access)
GetNavigationData_touches ==
    \E GET \in RequestGETs :
        LET key == SaveAndNextMixin_get_navigation_session_key(EditRequest(GET), None)
        IN  /\ last = Idle
            /\ last' = [op |-> "get_navigation_data", GET |-> GET,
                        ret |-> get_navigation_data(session, EditRequest(GET), now)]
            /\ session' = IF key \in DOMAIN session
                          THEN [session EXCEPT ![key].timestamp = now]
                          ELSE session
            /\ UNCHANGED <<now, conf, input, run>>

\* reading the keys of an expired entry deletes the entry
GetNavigationPks_deletes_expired ==
    \E GET \in RequestGETs :
        LET key == SaveAndNextMixin_get_navigation_session_key(EditRequest(GET), None)
        IN  /\ last = Idle
            /\ last' = [op |-> "get_navigation_pks", GET |-> GET,
                        ret |-> get_navigation_pks(session, EditRequest(GET), now)]
            /\ session' = dict_del(session, {key} \cap expired_keys(session, now))
            /\ UNCHANGED <<now, conf, input, run>>

GetNavigationData ==
    \E GET \in RequestGETs :
        /\ last = Idle
        /\ last' = [op |-> "get_navigation_data", GET |-> GET,
                    ret |-> get_navigation_data(session, EditRequest(GET), now)]
        /\ UNCHANGED <<session, now, conf, input, run>>

GetNavigationPks ==
    \E GET \in RequestGETs :
        /\ last = Idle
        /\ last' = [op |-> "get_navigation_pks", GET |-> GET,
                    ret |-> get_navigation_pks(session, EditRequest(GET), now)]
        /\ UNCHANGED <<session, now, conf, input, run>>

GetNextPk ==
    \E GET \in RequestGETs, object_pk \in ObjectPks :
        /\ last = Idle
        /\ last' = [op |-> "get_next_pk", GET |-> GET, object_pk |-> object_pk,
                    out |-> get_next_pk(session, EditRequest(GET),
                                        EditView(object_pk), now)]
        /\ UNCHANGED <<session, now, conf, input, run>>

GetPreviousPk ==
    \E GET \in RequestGETs, object_pk \in ObjectPks :
        /\ last = Idle
        /\ last' = [op |-> "get_previous_pk", GET |-> GET, object_pk |-> object_pk,
                    out |-> get_previous_pk(session, EditRequest(GET),
                                            EditView(object_pk), now)]
        /\ UNCHANGED <<session, now, conf, input, run>>

GetCurrentPosition ==
    \E GET \in RequestGETs, object_pk \in ObjectPks :
        /\ last = Idle
        /\ last' = [op |-> "get_current_position", GET |-> GET, object_pk |-> object_pk,
                    out |-> get_current_position(session, EditRequest(GET),
                                                 EditView(object_pk), now)]
        /\ UNCHANGED <<session, now, conf, input, run>>

GetCloseUrl ==
    \E GET \in CloseGETs, POST \in ClosePOSTs, list_url \in ListUrls :
        LET request == [GET |-> GET, POST |-> POST, uri |-> "/orders/edit/"]
            view == [EditView("20") EXCEPT !.list_url = list_url]
        IN  /\ last = Idle
            /\ last' = [op |-> "get_close_url", GET |-> GET, POST |-> POST,
                        list_url |-> list_url,
                        ret |-> get_close_url(session, request, view, now)]
            /\ UNCHANGED <<session, now, conf, input, run>>

GetContextData ==
    \E GET \in RequestGETs, view \in EditViews :
        /\ last = Idle
        /\ view.navigation_enabled \/ (GET = EmptyDict /\ view.object_pk = "20")
        /\ last' = [op |-> "get_context_data", GET |-> GET,
                    object_pk |-> view.object_pk, lookups |-> view.lookups,
                    navigation_enabled |-> view.navigation_enabled,
                    out |-> SaveAndNextMixin_get_context_data(
                                session, EditRequest(GET), view, now)]
        /\ UNCHANGED <<session, now, conf, input, run>>

\* the POST of the edit form, after super().form_valid(form) saved the record
FormValid ==
    \E GET \in FormGETs, POST \in FormPOSTs, view \in EditViews :
        LET request == [GET |-> GET, POST |-> POST, uri |-> "/orders/edit/",
                        path |-> edit_url(view.object_pk)]
        IN  /\ last = Idle
            /\ view.object_pk \in {"20", "30"}
            /\ view.navigation_enabled \/ (GET = EmptyDict /\ view.object_pk = "20")
            /\ last' = [op |-> "form_valid", GET |-> GET, POST |-> POST,
                        object_pk |-> view.object_pk, lookups |-> view.lookups,
                        navigation_enabled |-> view.navigation_enabled,
                        out |-> form_valid(session, request, view, now)]
            /\ UNCHANGED <<session, now, conf, input, run>>

GetNavigationUrl ==
    \E GET \in UrlGETs, pk \in {None, "", "20"}, lookup \in Lookups :
        LET view == [EditView("10") EXCEPT !.lookup = lookup]
        IN  /\ last = Idle
            /\ last' = [op |-> "get_navigation_url", GET |-> GET, pk |-> pk,
                        lookup |-> lookup,
                        out |-> get_navigation_url(EditRequest(GET), view, pk)]
            /\ UNCHANGED <<session, now, conf, input, run>>

Next ==
    \/ Tick
    \/ Return
    \/ ListViewRequest
    \/ StoreNavigationPks
    \/ CleanupExpiredNavigationData
    \/ GetOrCreateNavigationToken
    \/ GetNavigationData
    \/ GetNavigationPks
    \/ GetNextPk
    \/ GetPreviousPk
    \/ GetCurrentPosition
    \/ GetCloseUrl
    \/ GetNavigationUrl

Spec == Init /\ [][Next]_vars

----------------------------------------------------------------------------
(* Stores and cleanups on a session that outlives the settings: the
   application restarts with another NAVIGATION_MAX_CONTEXTS while the session
   keeps the entries stored under the old one *)

Reconfigure ==
    \E max_contexts \in 0..MaxContexts :
        /\ last = Idle
        /\ max_contexts # conf.NAVIGATION_MAX_CONTEXTS
        /\ conf' = [conf EXCEPT !.NAVIGATION_MAX_CONTEXTS = max_contexts]
        /\ UNCHANGED <<session, now, last, input, run>>

NextCleanup ==
    \/ Tick
    \/ Return
    \/ StoreNavigationPks
    \/ CleanupExpiredNavigationData
    \/ Reconfigure

SpecCleanup == Init /\ [][NextCleanup]_vars

----------------------------------------------------------------------------
(* The edit views of one client: list views store the keys, edit views read
   them, render the navigation context and redirect after a save *)

InitEdit ==
    /\ session = EmptyDict
    /\ now = 0
    /\ conf = [NAVIGATION_MAX_CONTEXTS |-> MaxContexts,
               NAVIGATION_SESSION_TIMEOUT |-> NAVIGATION_SESSION_TIMEOUT,
               NAVIGATION_MAX_PK_COUNT |-> NAVIGATION_MAX_PK_COUNT,
               NAVIGATION_CONTEXT_WINDOW |-> NAVIGATION_CONTEXT_WINDOW]
    /\ last = Idle
    /\ input = NoInput
    /\ run = NoRun

NextEdit ==
    \/ Tick
    \/ Return
    \/ ListViewRequest
    \/ GetCurrentPosition
    \/ GetNavigationUrl
    \/ GetContextData
    \/ FormValid

SpecEdit == InitEdit /\ [][NextEdit]_vars

----------------------------------------------------------------------------
(* The pure functions on drawn inputs *)

PkAlphabet == {"10", "20", "30"}

SeqsUpTo(S, n) == UNION {[1..k -> S] : k \in 0..n}

LimitInputs ==
    [op : {"limit"},
     all_pks : SeqsUpTo(PkAlphabet, MaxLen),
     current_pk : {None, "10", "20", "99"},
     navigation_max_pk_count : {NoneInt} \cup 0..MaxLen,
     navigation_context_window : {NoneInt, 0, 2}]

\* the arguments of store_navigation_pks; get_context_data passes no current key
StoreInputs ==
    [op : {"store"},
     all_pks : SeqsUpTo(PkAlphabet, MaxLen),
     current_pk : {None, "10", "20", "99"},
     navigation_max_pk_count : {NoneInt} \cup 0..MaxLen,
     navigation_context_window : {NoneInt, 0, 2}]

KeyInputs ==
    [op : {"key"},
     nav_token : {None, "", "a", "b"},
     GET : RequestGETs]

DefaultConf ==
    [NAVIGATION_MAX_CONTEXTS |-> MaxContexts,
     NAVIGATION_SESSION_TIMEOUT |-> NAVIGATION_SESSION_TIMEOUT,
     NAVIGATION_MAX_PK_COUNT |-> NAVIGATION_MAX_PK_COUNT,
     NAVIGATION_CONTEXT_WINDOW |-> NAVIGATION_CONTEXT_WINDOW]

InitPure ==
    /\ session = EmptyDict
    /\ now = 0
    /\ conf = DefaultConf
    /\ last = Idle
    /\ input \in LimitInputs \cup KeyInputs \cup StoreInputs
    /\ run = NoRun

LimitPksAroundCurrent ==
    /\ input.op = "limit"
    /\ last = Idle
    /\ last' = [op |-> "limit_pks_around_current",
                ret |-> limit_pks_around_current(
                            [enable_navigation_storage |-> TRUE,
                             has_object_list |-> TRUE,
                             navigation_max_pk_count |-> input.navigation_max_pk_count,
                             navigation_context_window |->
                                 input.navigation_context_window],
                            input.all_pks, input.current_pk)]
    /\ UNCHANGED <<session, now, conf, input, run>>

WriteSideSessionKey ==
    /\ input.op = "key"
    /\ last = Idle
    /\ last' = [op |-> "NavigationStorageMixin.get_navigation_session_key",
                ret |-> NavigationStorageMixin_get_navigation_session_key(
                            input.nav_token)]
    /\ UNCHANGED <<session, now, conf, input, run>>

ReadSideSessionKey ==
    /\ input.op = "key"
    /\ last = Idle
    /\ last' = [op |-> "SaveAndNextMixin.get_navigation_session_key",
                ret |-> SaveAndNextMixin_get_navigation_session_key(
                            EditRequest(input.GET), input.nav_token)]
    /\ UNCHANGED <<session, now, conf, input, run>>

\* store_navigation_pks on the drawn key list, into an empty session
StoreNavigationPksEntry ==
    /\ input.op = "store"
    /\ last = Idle
    /\ session' \in store_navigation_pks(
                        session, now, now,
                        [enable_navigation_storage |-> TRUE,
                         has_object_list |-> TRUE,
                         navigation_max_pk_count |-> input.navigation_max_pk_count,
                         navigation_context_window |->
                             input.navigation_context_window],
                        ListRequest(EmptyDict), input.all_pks, "a", input.current_pk)
    /\ last' = [op |-> "store_navigation_pks", stored |-> TRUE, nav_token |-> "a"]
    /\ UNCHANGED <<now, conf, input, run>>

NextPure ==
    \/ LimitPksAroundCurrent
    \/ StoreNavigationPksEntry
    \/ WriteSideSessionKey
    \/ ReadSideSessionKey

SpecPure == InitPure /\ [][NextPure]_vars

----------------------------------------------------------------------------
(* The eviction scenario: entries stored one after the other under new tokens,
   each at a later time than the one before *)

TokenNames == <<"t1", "t2", "t3", "t4", "t5", "t6", "t7", "t8", "t9", "t10">>

\* a timeout no entry of the scenario reaches
LongTimeout == 2 * (MaxContexts + 6)

InitEvict ==
    /\ session = EmptyDict
    /\ now = 0
    /\ conf \in [NAVIGATION_MAX_CONTEXTS : 1..MaxContexts,
                 NAVIGATION_SESSION_TIMEOUT : {NAVIGATION_SESSION_TIMEOUT, LongTimeout},
                 NAVIGATION_MAX_PK_COUNT : {NAVIGATION_MAX_PK_COUNT},
                 NAVIGATION_CONTEXT_WINDOW : {NAVIGATION_CONTEXT_WINDOW}]
    /\ last = Idle
    /\ input = NoInput
    /\ run = NoRun

StoreNext ==
    \E dt \in {1, 2} :
        LET nav_token == TokenNames[Len(run.stored) + 1]
            view == [enable_navigation_storage |-> TRUE, has_object_list |-> TRUE,
                     navigation_max_pk_count |-> NoneInt,
                     navigation_context_window |-> NoneInt]
        IN  /\ Len(run.stored) < conf.NAVIGATION_MAX_CONTEXTS + 5
            /\ now' = now + dt
            /\ session' \in store_navigation_pks(session, now', now', view,
                                                 ListRequest(EmptyDict), Pks,
                                                 nav_token, None)
            /\ run' = [stored |-> Append(run.stored, nav_token),
                       expired_seen |-> \/ run.expired_seen
                                        \/ expired_keys(session, now') # {}]
            /\ last' = [op |-> "store_navigation_pks", stored |-> TRUE,
                        nav_token |-> nav_token]
            /\ UNCHANGED <<conf, input>>

NextEvict == StoreNext

SpecEvict == InitEvict /\ [][NextEvict]_vars

----------------------------------------------------------------------------
(* Two requests of one client at a time.  request.session is a SessionStore:
   the first access of a request loads the stored session into the request's
   own dict, every later access works on that dict, and save() writes the
   whole dict back over the stored one. *)

Workers == {1, 2}

\* the requests of a client, over all workers
MaxRequests == 3

\* the list view each worker serves: its URL and the keys of its list
WorkerUri == <<ListUrl, "http://testserver/items/">>
WorkerPks == <<Pks, <<"50", "60">> >>

\* the stored session is replaced key by key instead of as a whole
session_save_merges(stored, local) == local @@ stored

\* request.session.save(): the request's dict replaces the stored session
session_save(stored, local) == local

InitRace ==
    /\ session = EmptyDict
    /\ now = 0
    /\ conf \in [NAVIGATION_MAX_CONTEXTS : 1..MaxContexts,
                 NAVIGATION_SESSION_TIMEOUT : {NAVIGATION_SESSION_TIMEOUT},
                 NAVIGATION_MAX_PK_COUNT : {NAVIGATION_MAX_PK_COUNT},
                 NAVIGATION_CONTEXT_WINDOW : {NAVIGATION_CONTEXT_WINDOW}]
    /\ last = Idle
    /\ input = NoInput
    /\ run = [pc |-> [w \in Workers |-> "idle"],
              local |-> [w \in Workers |-> EmptyDict],
              nav_token |-> [w \in Workers |-> None],
              requests |-> 0,
              saved |-> EmptyDict,
              saved_by |-> 0]

\* a request arrives at worker w; its first access of request.session loads
\* the stored session
LoadSession(w) ==
    \E nav_token \in Tokens :
        /\ run.pc[w] = "idle"
        /\ run.requests < MaxRequests
        /\ run' = [run EXCEPT !.pc[w] = "loaded",
                              !.local[w] = session,
                              !.nav_token[w] = nav_token,
                              !.requests = @ + 1]
        /\ UNCHANGED <<session, now, conf, last, input>>

\* store_navigation_pks up to the write of the entry into the request's dict
StoreInRequest(w) ==
    LET view == [enable_navigation_storage |-> TRUE, has_object_list |-> TRUE,
                 navigation_max_pk_count |-> NoneInt,
                 navigation_context_window |-> NoneInt]
        request == [GET |-> EmptyDict, POST |-> EmptyDict, uri |-> WorkerUri[w]]
    IN  /\ run.pc[w] = "loaded"
        /\ \E local \in store_navigation_pks(run.local[w], now, now, view, request,
                                             WorkerPks[w], run.nav_token[w], None) :
               run' = [run EXCEPT !.pc[w] = "stored", !.local[w] = local]
        /\ UNCHANGED <<session, now, conf, last, input>>

\* self.request.session.save(), the last statement of store_navigation_pks
SaveSession(w) ==
    /\ run.pc[w] = "stored"
    /\ session' = session_save(session, run.local[w])
    /\ run' = [run EXCEPT !.pc[w] = "idle",
                          !.local[w] = EmptyDict,
                          !.saved = run.local[w],
                          !.saved_by = w]
    /\ UNCHANGED <<now, conf, last, input>>

NextRace ==
    \/ Tick
    \/ \E w \in Workers : LoadSession(w)
    \/ \E w \in Workers : StoreInRequest(w)
    \/ \E w \in Workers : SaveSession(w)

SpecRace == InitRace /\ [][NextRace]_vars

----------------------------------------------------------------------------
(* PerPageViewMixin: the page size of a table view *)

DecimalDigits == "0123456789"

is_digit(ch) == \E d \in 0..9 : SubSeq(DecimalDigits, d + 1, d + 1) = ch

digit_value(ch) == CHOOSE d \in 0..9 : SubSeq(DecimalDigits, d + 1, d + 1) = ch

\* str.strip() of blanks
RECURSIVE strip(_)
strip(s) ==
    IF s = "" THEN s
    ELSE IF SubSeq(s, 1, 1) = " " THEN strip(SubSeq(s, 2, Len(s)))
    ELSE IF SubSeq(s, Len(s), Len(s)) = " " THEN strip(SubSeq(s, 1, Len(s) - 1))
    ELSE s

\* the number a string of decimal digits denotes
RECURSIVE digits_value(_)
digits_value(s) ==
    IF s = "" THEN 0
    ELSE 10 * digits_value(SubSeq(s, 1, Len(s) - 1))
            + digit_value(SubSeq(s, Len(s), Len(s)))

\* int(s) for a str s: blanks around the number and a sign are accepted, anything
\* but decimal digits after that is a ValueError (no string of the model has
\* an underscore or a digit that is not ASCII)
py_int(s) ==
    LET t == strip(s)
        signed == t # "" /\ SubSeq(t, 1, 1) \in {"+", "-"}
        body == IF signed THEN SubSeq(t, 2, Len(t)) ELSE t
        sign == IF signed /\ SubSeq(t, 1, 1) = "-" THEN 0 - 1 ELSE 1
    IN  IF body = "" \/ \E i \in 1..Len(body) : ~is_digit(SubSeq(body, i, i))
        THEN Raises("ValueError")
        ELSE Returns(sign * digits_value(body))

\* x in xs, for a list xs
list_contains(xs, x) == \E i \in 1..Len(xs) : xs[i] = x

\* view.view_name is request.resolver_match.view_name, None when the request
\* has no resolver match (the exception is caught)
get_per_page_session_key(view) ==
    IF view.view_name # None
    THEN "per_page_" \o view.table_name \o "_" \o view.view_name
    ELSE IF Truthy(view.per_page_session_key) THEN view.per_page_session_key
    ELSE view.default_per_page_session_key

\* a valid parameter is returned but not written to the session
get_paginate_by_no_save(sess, request, view) ==
    LET per_page == py_or(dict_get(request.GET, "per_page", None),
                          dict_get(request.POST, "per_page", None))
        parsed == py_int(per_page)
        key == get_per_page_session_key(view)
        session_per_page == dict_get(sess, key, NoneInt)
    IN  IF Truthy(per_page) /\ parsed.exc = None
              /\ list_contains(view.per_page_options, parsed.ret)
        THEN [ret |-> parsed.ret, session |-> sess]
        ELSE IF session_per_page # NoneInt /\ session_per_page # 0
                   /\ list_contains(view.per_page_options, session_per_page)
        THEN [ret |-> session_per_page, session |-> sess]
        ELSE IF view.paginate_by # NoneInt /\ view.paginate_by # 0
        THEN [ret |-> view.paginate_by, session |-> sess]
        ELSE [ret |-> view.default_per_page, session |-> sess]

\* the stored preference is looked at before the request's parameter
get_paginate_by_session_first(sess, request, view) ==
    LET per_page == py_or(dict_get(request.GET, "per_page", None),
                          dict_get(request.POST, "per_page", None))
        parsed == py_int(per_page)
        key == get_per_page_session_key(view)
        session_per_page == dict_get(sess, key, NoneInt)
    IN  IF session_per_page # NoneInt /\ session_per_page # 0
              /\ list_contains(view.per_page_options, session_per_page)
        THEN [ret |-> session_per_page, session |-> sess]
        ELSE IF Truthy(per_page) /\ parsed.exc = None
                   /\ list_contains(view.per_page_options, parsed.ret)
        THEN [ret |-> parsed.ret, session |-> dict_set(sess, key, parsed.ret)]
        ELSE IF view.paginate_by # NoneInt /\ view.paginate_by # 0
        THEN [ret |-> view.paginate_by, session |-> sess]
        ELSE [ret |-> view.default_per_page, session |-> sess]

\* view.paginate_by = NoneInt: the attribute is None.
\* Returns the page size and the session the call leaves.
get_paginate_by(sess, request, view) ==
    LET per_page == py_or(dict_get(request.GET, "per_page", None),
                          dict_get(request.POST, "per_page", None))
        parsed == py_int(per_page)
        key == get_per_page_session_key(view)
        session_per_page == dict_get(sess, key, NoneInt)
    IN  IF Truthy(per_page) /\ parsed.exc = None
              /\ list_contains(view.per_page_options, parsed.ret)
        THEN [ret |-> parsed.ret, session |-> dict_set(sess, key, parsed.ret)]
        ELSE IF session_per_page # NoneInt /\ session_per_page # 0
                   /\ list_contains(view.per_page_options, session_per_page)
        THEN [ret |-> session_per_page, session |-> sess]
        ELSE IF view.paginate_by # NoneInt /\ view.paginate_by # 0
        THEN [ret |-> view.paginate_by, session |-> sess]
        ELSE [ret |-> view.default_per_page, session |-> sess]

\* the per_page parameter of a request, or none
PerPageParams == {"10", "25", "100", "7", " 25", "abc", "2.5", ""}

PerPageQueries == {EmptyDict} \cup {[per_page |-> v] : v \in PerPageParams}

\* table views that share the session: allowed sizes, default and paginate_by
PerPageViews ==
    [per_page_options : {<<10, 25, 50>>, <<10, 100>>},
     default_per_page : {25},
     paginate_by : {NoneInt, 0, 75},
     per_page_session_key : {None},
     default_per_page_session_key : {"table_per_page"},
     table_name : {"OrderTable"},
     view_name : {None, "orders"}]

InitPerPage ==
    /\ session = EmptyDict
    /\ now = 0
    /\ conf = DefaultConf
    /\ last = Idle
    /\ input = NoInput
    /\ run = NoRun

GetPaginateBy ==
    \E GET \in PerPageQueries, POST \in PerPageQueries, view \in PerPageViews :
        LET request == [GET |-> GET, POST |-> POST, uri |-> ListUrl]
            got == get_paginate_by(session, request, view)
        IN  /\ last = Idle
            /\ session' = got.session
            /\ last' = [op |-> "get_paginate_by", GET |-> GET, POST |-> POST,
                        view |-> view, before |-> session, ret |-> got.ret]
            /\ UNCHANGED <<now, conf, input, run>>

NextPerPage ==
    \/ GetPaginateBy
    \/ Return

SpecPerPage == InitPerPage /\ [][NextPerPage]_vars

----------------------------------------------------------------------------
(* ActionsColumnMixin (table_mixins.py): the actions of a table's action column *)

\* the class-level dictionaries of the standard actions
view_action ==
    [name |-> "view", url_name |-> None, icon |-> "bi bi-eye",
     class |-> "text-primary", title |-> "View", requires_modal |-> FALSE]

edit_action ==
    [name |-> "edit", url_name |-> None, icon |-> "bi bi-pencil-square",
     class |-> "text-primary", title |-> "Edit", requires_modal |-> FALSE]

delete_action ==
    [name |-> "delete", url_name |-> None, icon |-> "bi bi-trash",
     class |-> "text-danger", title |-> "Delete", requires_modal |-> TRUE,
     modal_target |-> "#deleteModalBdt", modal_toggle |-> "modal"]

\* config[key] raises KeyError for a missing key; any exception of the try block
\* becomes ImproperlyConfigured
_normalize_action_config(config) ==
    LET requires_modal == dict_get(config, "requires_modal", FALSE)
        action == [name |-> config.name,
                   url_name |-> dict_get(config, "url_name", None),
                   url_kwargs |-> dict_get(config, "url_kwargs", None),
                   icon |-> config.icon,
                   class |-> config.class,
                   title |-> config.title,
                   requires_modal |-> requires_modal]
    IN  IF ~({"name", "icon", "class", "title"} \subseteq DOMAIN config)
        THEN Raises("ImproperlyConfigured")
        ELSE IF ~requires_modal THEN Returns(action)
        ELSE IF ~({"modal_target", "modal_toggle"} \subseteq DOMAIN config)
        THEN Raises("ImproperlyConfigured")
        ELSE Returns([modal_target |-> config.modal_target,
                      modal_toggle |-> config.modal_toggle] @@ action)

\* One of the three blocks of _add_standard_actions, for the class-level
\* dictionary class_action and the attribute action_url_name: the enabled
\* action, normalized.  Reading the attribute raises no KeyError, so the
\* except branch that raises ImproperlyConfigured is never taken.
standard_action(class_action, action_url_name) ==
    IF "url_name" \notin DOMAIN class_action THEN Raises("KeyError")
    ELSE _normalize_action_config(
             IF class_action.url_name = None
             THEN [class_action EXCEPT !.url_name = action_url_name]
             ELSE class_action)

\* table is the table instance with its class attributes
_add_standard_actions(table, actions) ==
    LET view == standard_action(table.view_action, table.view_action_url_name)
        edit == standard_action(table.edit_action, table.edit_action_url_name)
        delete == standard_action(table.delete_action, table.delete_action_url_name)
        with_view == IF table.enable_view_action
                     THEN Append(actions, view.ret) ELSE actions
        with_edit == IF table.enable_edit_action
                     THEN Append(with_view, edit.ret) ELSE with_view
        with_delete == IF table.enable_delete_action
                       THEN Append(with_edit, delete.ret) ELSE with_edit
    IN  IF table.enable_view_action /\ view.exc # None THEN view
        ELSE IF table.enable_edit_action /\ edit.exc # None THEN edit
        ELSE IF table.enable_delete_action /\ delete.exc # None THEN delete
        ELSE Returns(with_delete)

\* the normalized configurations of the list, or the first exception
RECURSIVE normalize_all(_, _)
normalize_all(actions, configs) ==
    IF configs = <<>> THEN Returns(actions)
    ELSE LET action == _normalize_action_config(Head(configs))
         IN  IF action.exc # None THEN action
             ELSE normalize_all(Append(actions, action.ret), Tail(configs))

_get_enabled_actions(table) ==
    LET standard == _add_standard_actions(table, <<>>)
    IN  IF standard.exc # None THEN standard
        ELSE normalize_all(standard.ret, table.actions)

\* ActionsColumnMixin.__init__: table.enabled_actions, None when the table has
\* no actions column (the attribute is not set)
ActionsColumnMixin_init(table) ==
    IF ~table.has_actions_column THEN Returns(None)
    ELSE _get_enabled_actions(table)

\* a custom action of the structured list
custom_action ==
    [name |-> "archive", url_name |-> "orders:archive", icon |-> "bi bi-archive",
     class |-> "text-warning", title |-> "Archive"]

\* the table classes of the application
Tables ==
    [has_actions_column : BOOLEAN,
     actions : {<<>>, <<custom_action>>},
     enable_view_action : BOOLEAN,
     enable_edit_action : BOOLEAN,
     enable_delete_action : BOOLEAN,
     view_action_url_name : {None, "orders:detail"},
     edit_action_url_name : {None, "orders:update"},
     delete_action_url_name : {None, "orders:delete"},
     view_action : {view_action, [view_action EXCEPT !.url_name = "orders:view"],
                    [name |-> "view", url_name |-> None]},
     edit_action : {edit_action},
     delete_action : {delete_action}]

InitTable ==
    /\ session = EmptyDict
    /\ now = 0
    /\ conf = DefaultConf
    /\ last = Idle
    /\ input = NoInput
    /\ run = NoRun

\* TableClass(data)
ConstructTable ==
    \E table \in Tables :
        /\ last = Idle
        /\ last' = [op |-> "ActionsColumnMixin.__init__", table |-> table,
                    out |-> ActionsColumnMixin_init(table)]
        /\ UNCHANGED <<session, now, conf, input, run>>

NextTable ==
    \/ ConstructTable
    \/ Return

SpecTable == InitTable /\ [][NextTable]_vars

----------------------------------------------------------------------------
(* The session of a client of a list view with all the mixins: navigation
   entries, the per-page preference and the filter-toggle preference *)

UpperCase == "ABCDEFGHIJKLMNOPQRSTUVWXYZ"

LowerCase == "abcdefghijklmnopqrstuvwxyz"

lower_char(ch) ==
    IF \E i \in 1..Len(UpperCase) : SubSeq(UpperCase, i, i) = ch
    THEN LET i == CHOOSE i \in 1..Len(UpperCase) : SubSeq(UpperCase, i, i) = ch
         IN  SubSeq(LowerCase, i, i)
    ELSE ch

\* str.lower()
RECURSIVE lower(_)
lower(s) ==
    IF s = "" THEN s ELSE lower_char(SubSeq(s, 1, 1)) \o lower(SubSeq(s, 2, Len(s)))

\* view.view_name is request.resolver_match.view_name, None when the request
\* has no resolver match (the exception is caught)
get_toggle_filter_session_key(view) ==
    IF view.view_name # None
    THEN "toggle_filter__" \o view.view_name
    ELSE "toggle_filter__" \o view.class_name

\* the value returned and the session left behind; the session holds booleans
\* only under the key, so a key that is present is a value that is not None
get_toggle_filter(sess, request, view) ==
    LET session_key == get_toggle_filter_session_key(view)
        toggle == dict_get(request.GET, "toggle_filter", None)
        toggle_value == lower(toggle) \in {"1", "true", "yes"}
    IN  IF toggle # None
        THEN [ret |-> toggle_value, session |-> dict_set(sess, session_key, toggle_value)]
        ELSE IF session_key \in DOMAIN sess
        THEN [ret |-> sess[session_key], session |-> sess]
        ELSE [ret |-> view.toggle_filter, session |-> sess]

\* the list view of the orders
OrdersView ==
    [per_page_options |-> <<10, 25, 50>>, default_per_page |-> 25,
     paginate_by |-> NoneInt, per_page_session_key |-> None,
     default_per_page_session_key |-> "table_per_page",
     table_name |-> "OrderTable", view_name |-> "orders",
     class_name |-> "OrderListView", toggle_filter |-> TRUE]

ToggleQueries ==
    {EmptyDict, [toggle_filter |-> "1"], [toggle_filter |-> "TRUE"],
     [toggle_filter |-> "no"]}

OrdersPerPageQueries == {EmptyDict, [per_page |-> "10"], [per_page |-> "50"]}

InitPrefs ==
    /\ session = EmptyDict
    /\ now = 0
    /\ conf = DefaultConf
    /\ last = Idle
    /\ input = NoInput
    /\ run = NoRun

\* get_paginate_by of the list view
PerPageRequest ==
    \E GET \in OrdersPerPageQueries :
        LET request == [GET |-> GET, POST |-> EmptyDict, uri |-> ListUrl]
            got == get_paginate_by(session, request, OrdersView)
        IN  /\ last = Idle
            /\ session' = got.session
            /\ last' = [op |-> "get_paginate_by", ret |-> got.ret]
            /\ UNCHANGED <<now, conf, input, run>>

\* get_toggle_filter of the list view
ToggleFilterRequest ==
    \E GET \in ToggleQueries :
        LET request == [GET |-> GET, POST |-> EmptyDict, uri |-> ListUrl]
            got == get_toggle_filter(session, request, OrdersView)
        IN  /\ last = Idle
            /\ session' = got.session
            /\ last' = [op |-> "get_toggle_filter", ret |-> got.ret]
            /\ UNCHANGED <<now, conf, input, run>>

NextPrefs ==
    \/ Tick
    \/ Return
    \/ PerPageRequest
    \/ ToggleFilterRequest
    \/ StoreNavigationPks
    \/ CleanupExpiredNavigationData

SpecPrefs == InitPrefs /\ [][NextPrefs]_vars

----------------------------------------------------------------------------
(* The walk: a list view stores a key list, the client opens the edit view of
   one record and goes from record to record with get_next_pk *)

WalkToken == "a"

\* the longest walk that is followed
MaxMoves == MaxLen + 1

WalkInputs == [op : {"walk"}, all_pks : SeqsUpTo(PkAlphabet, MaxLen), start : PkAlphabet]

\* run.visited: the records whose edit view was opened, in order; run.ended:
\* get_next_pk has returned None
InitWalk ==
    /\ now = 0
    /\ conf = DefaultConf
    /\ input \in WalkInputs
    /\ session \in store_navigation_pks(EmptyDict, 0, 0, StoreView(TRUE),
                                         ListRequest(EmptyDict), input.all_pks,
                                         WalkToken, None)
    /\ last = Idle
    /\ run = [visited |-> <<input.start>>, ended |-> FALSE]

\* get_next_pk of the edit view of the record the walk is at; the client goes
\* to the key it returns
WalkNext ==
    LET at == run.visited[Len(run.visited)]
        GET == [nav_token |-> WalkToken]
        out == get_next_pk(session, EditRequest(GET), EditView(at), now)
    IN  /\ last = Idle
        /\ ~run.ended
        /\ Len(run.visited) <= MaxMoves
        /\ last' = [op |-> "get_next_pk", GET |-> GET, object_pk |-> at, out |-> out]
        /\ run' = IF out.ret = None
                  THEN [run EXCEPT !.ended = TRUE]
                  ELSE [run EXCEPT !.visited = Append(@, out.ret)]
        /\ UNCHANGED <<session, now, conf, input>>

NextWalk ==
    \/ Tick
    \/ Return
    \/ WalkNext

SpecWalk == InitWalk /\ [][NextWalk]_vars

----------------------------------------------------------------------------
(* Properties *)

nav_keys(sess) == {key \in DOMAIN sess : is_nav_key(key)}

key_of(tok) == "bdt_nav_token_" \o tok

req_token == dict_get(last.GET, "nav_token", None)

has_entry(tok) == Truthy(tok) /\ key_of(tok) \in DOMAIN session

age_of(key) == now - session[key].timestamp

is_live(key) == age_of(key) <= conf.NAVIGATION_SESSION_TIMEOUT

\* C1: with max_contexts = N > 0 the session never holds more than N
\* navigation entries, whatever store_navigation_pks calls were made
C1_MaxContextsBound ==
    conf.NAVIGATION_MAX_CONTEXTS > 0 =>
        Cardinality(nav_keys(session)) <= conf.NAVIGATION_MAX_CONTEXTS

\* a store call that found the session full: it now holds N >= 2 entries, the
\* one just written and an older one
C1_Witness ==
    /\ last.op \in {"store_navigation_pks", "list_view"}
    /\ conf.NAVIGATION_MAX_CONTEXTS >= 2
    /\ Cardinality(nav_keys(session)) = conf.NAVIGATION_MAX_CONTEXTS
    /\ \E key \in nav_keys(session) : session[key].timestamp < now
    /\ \E key \in nav_keys(session) : session[key].timestamp = now /\ now >= 2

\* C3 as stated: the request's token comes back exactly when it is non-empty and
\* its entry is in the session and live
C3_ReusedOnlyWhenLive ==
    last.op = "get_or_create_navigation_token" =>
        (last.ret = req_token <=>
            (has_entry(req_token) /\ is_live(key_of(req_token))))

\* C3 amended: the request's token comes back exactly when it is non-empty and the
\* session holds an entry under its key, expired or not; otherwise the token is
\* a newly minted one
C3_ReusedWhenPresent ==
    last.op = "get_or_create_navigation_token" =>
        /\ last.ret = req_token <=> has_entry(req_token)
        /\ ~has_entry(req_token) =>
              /\ last.ret \in Tokens
              /\ key_of(last.ret) \notin DOMAIN session

\* the token of an expired entry is handed back
C3_Witness ==
    /\ last.op = "get_or_create_navigation_token"
    /\ has_entry(req_token)
    /\ ~is_live(key_of(req_token))
    /\ last.ret = req_token

\* C4: get_navigation_data returns the stored entry while now - created_at <=
\* session_timeout and the empty dict after; the keys and the origin URL of an
\* expired entry are absent too
C4_ReadableWhileLive ==
    (last.op \in {"get_navigation_data", "get_navigation_pks", "get_close_url"}
        /\ has_entry(req_token)) =>
        LET entry == session[key_of(req_token)]
            live == now - entry.timestamp <= conf.NAVIGATION_SESSION_TIMEOUT
        IN  /\ last.op = "get_navigation_data" =>
                  last.ret = (IF live THEN entry ELSE EmptyDict)
            /\ last.op = "get_navigation_pks" =>
                  last.ret = (IF live THEN entry.pks ELSE <<>>)
            /\ last.op = "get_close_url" =>
                  (last.ret = entry.referrer_url <=> live)

\* an entry is read at the age of exactly the timeout
C4_Witness ==
    /\ last.op = "get_navigation_data"
    /\ has_entry(req_token)
    /\ age_of(key_of(req_token)) = conf.NAVIGATION_SESSION_TIMEOUT
    /\ last.ret = session[key_of(req_token)]

written_key == NavigationStorageMixin_get_navigation_session_key(last.nav_token)'

StoreOps == {"store_navigation_pks", "list_view"}

ReadOps ==
    {"get_navigation_data", "get_navigation_pks", "get_next_pk", "get_previous_pk",
     "get_current_position", "get_close_url", "get_navigation_url",
     "get_or_create_navigation_token"}

\* the body of cleanup runs: force, or the entry count has reached max_contexts
body_runs(force) ==
    \/ force
    \/ /\ conf.NAVIGATION_MAX_CONTEXTS # 0
       /\ Cardinality(nav_keys(session)) >= conf.NAVIGATION_MAX_CONTEXTS

live_keys == {key \in nav_keys(session) : is_live(key)}

\* the live entries are few enough that only expiry removes anything
expiry_alone ==
    \/ conf.NAVIGATION_MAX_CONTEXTS = 0
    \/ Cardinality(live_keys) < conf.NAVIGATION_MAX_CONTEXTS

\* C5: whenever the body of cleanup runs, called directly or by
\* store_navigation_pks, no entry older than the timeout is left (the entry the
\* store then writes is new), and where only expiry removes entries every entry
\* of age <= timeout is kept as it was
C5_ExpiryPass ==
    [][/\ (last'.op = "cleanup_expired_navigation_data" /\ body_runs(last'.force)) =>
             /\ \A key \in nav_keys(session) \ live_keys : key \notin DOMAIN session'
             /\ expiry_alone =>
                   \A key \in live_keys :
                       key \in DOMAIN session' /\ session'[key] = session[key]
       /\ (last'.op \in StoreOps /\ last'.stored /\ body_runs(FALSE)) =>
             /\ \A key \in nav_keys(session) \ live_keys :
                   key \notin DOMAIN session' \/ key = written_key
             /\ expiry_alone =>
                   \A key \in live_keys \ {written_key} :
                       key \in DOMAIN session' /\ session'[key] = session[key]
      ]_vars

\* a forced cleanup under no count limit removed an entry and kept one whose age
\* is exactly the timeout
C5_Witness ==
    /\ last.op = "cleanup_expired_navigation_data"
    /\ last.force
    /\ conf.NAVIGATION_MAX_CONTEXTS = 0
    /\ last.removed # {}
    /\ \E key \in nav_keys(session) : age_of(key) = conf.NAVIGATION_SESSION_TIMEOUT

\* C6 as stated: no step gives an entry that stays in the session a later
\* created_at
C6_NeverLaterTimestamp ==
    [][\A key \in nav_keys(session) \cap nav_keys(session') :
           session'[key].timestamp <= session[key].timestamp]_vars

\* C6 amended: an entry that stays in the session changes only when
\* store_navigation_pks writes under its token (a list view that reuses the token
\* included), which replaces it by an entry created at the time of the write; no
\* read changes an entry
C6_ChangedOnlyByStore ==
    [][\A key \in nav_keys(session) \cap nav_keys(session') :
           session'[key] # session[key] =>
               /\ last'.op \in StoreOps
               /\ key = written_key
               /\ session'[key].timestamp = now']_vars

\* a list view has reused the token of its request and the entry under it now
\* carries the time of this request
C6_Witness ==
    /\ last.op = "list_view"
    /\ Truthy(req_token)
    /\ last.nav_token = req_token
    /\ session[key_of(req_token)].timestamp = now
    /\ now >= 2

\* C7: no read-path operation changes the session
C7_ReadsLeaveStore ==
    [][last'.op \in ReadOps => session' = session]_vars

\* a read has run over a session that holds an expired entry, still there
C7_Witness ==
    /\ last.op \in ReadOps
    /\ has_entry(req_token)
    /\ ~is_live(key_of(req_token))

no_data == ~has_entry(req_token) \/ ~is_live(key_of(req_token))

\* C9: with the token missing, unknown or expired, the edit-view reads do not
\* raise: the key list is empty, next and previous are None, the position is
\* (None, None)
C9_AbsentDegrades ==
    (last.op \in {"get_navigation_pks", "get_next_pk", "get_previous_pk",
                  "get_current_position"} /\ no_data) =>
        /\ last.op = "get_navigation_pks" => last.ret = <<>>
        /\ last.op \in {"get_next_pk", "get_previous_pk"} =>
              last.out.exc = None /\ last.out.ret = None
        /\ last.op = "get_current_position" =>
              last.out.exc = None /\ last.out.ret = <<NoneInt, NoneInt>>

\* the position was asked for a record whose token points to an expired entry
C9_Witness ==
    /\ last.op = "get_current_position"
    /\ last.object_pk = "10"
    /\ has_entry(req_token)
    /\ ~is_live(key_of(req_token))
    /\ last.out = Returns(<<NoneInt, NoneInt>>)

\* the last n elements of a sequence, as a set
last_of(xs, n) == {xs[i] : i \in (Len(xs) - Min(n, Len(xs)) + 1)..Len(xs)}

\* C2: after N + 5 entries stored in sequence under distinct tokens at strictly
\* increasing times, none expiring, exactly the N most recently created are in
\* the session (and after k stores, the min(k, N) most recent)
C2_MostRecentSurvive ==
    ~run.expired_seen =>
        /\ nav_keys(session) =
              {key_of(tok) : tok \in last_of(run.stored, conf.NAVIGATION_MAX_CONTEXTS)}
        /\ Len(run.stored) = conf.NAVIGATION_MAX_CONTEXTS + 5 =>
              Cardinality(nav_keys(session)) = conf.NAVIGATION_MAX_CONTEXTS

\* all N + 5 entries are stored, N >= 2, none expired on the way
C2_Witness ==
    /\ Len(run.stored) = conf.NAVIGATION_MAX_CONTEXTS + 5
    /\ conf.NAVIGATION_MAX_CONTEXTS >= 2
    /\ ~run.expired_seen
    /\ Cardinality(nav_keys(session)) = conf.NAVIGATION_MAX_CONTEXTS

read_side == last.op = "SaveAndNextMixin.get_navigation_session_key"
write_side == last.op = "NavigationStorageMixin.get_navigation_session_key"

\* the token the read side resolves: its argument, or the request's nav_token
\* when the argument is None
read_token ==
    IF input.nav_token = None
    THEN dict_get(input.GET, "nav_token", None)
    ELSE input.nav_token

\* C8 as stated: on both sides a non-empty token maps to prefix + "token_" +
\* token, and a None or empty token to no key
C8_SameKeyBothSides ==
    /\ read_side =>
          last.ret = (IF Truthy(read_token) THEN "bdt_nav_token_" \o read_token
                      ELSE None)
    /\ write_side =>
          last.ret = (IF Truthy(input.nav_token) THEN "bdt_nav_token_" \o input.nav_token
                      ELSE None)

\* C8 amended: a non-empty token maps to prefix + "token_" + token on both
\* sides; a None or empty token maps to no key on the read side and to the
\* fallback key prefix + "token_default" on the write side
C8_KeyWithWriteFallback ==
    /\ read_side =>
          last.ret = (IF Truthy(read_token) THEN "bdt_nav_token_" \o read_token
                      ELSE None)
    /\ write_side =>
          last.ret = (IF Truthy(input.nav_token) THEN "bdt_nav_token_" \o input.nav_token
                      ELSE "bdt_nav_token_default")

\* the write side was given no token and answered with the fallback key
C8_Witness ==
    /\ write_side
    /\ input.nav_token = None
    /\ last.ret = "bdt_nav_token_default"

\* the limit in force: the view's navigation_max_pk_count, or the setting
max_pk_count_in_force ==
    IF input.navigation_max_pk_count # NoneInt
    THEN input.navigation_max_pk_count
    ELSE conf.NAVIGATION_MAX_PK_COUNT

\* C10: limit_pks_around_current returns its input unchanged, for any current
\* key, when max_pk_count is 0 or len(all_pks) <= max_pk_count
C10_ShortListUnchanged ==
    (last.op = "limit_pks_around_current"
        /\ (max_pk_count_in_force = 0
              \/ Len(input.all_pks) <= max_pk_count_in_force)) =>
        last.ret = input.all_pks

\* a list of exactly max_pk_count >= 2 keys, the current key its first
C10_Witness ==
    /\ last.op = "limit_pks_around_current"
    /\ max_pk_count_in_force >= 2
    /\ Len(input.all_pks) = max_pk_count_in_force
    /\ input.current_pk = input.all_pks[1]
    /\ input.navigation_context_window = 0
    /\ last.ret = input.all_pks

\* the current key is None or does not occur in all_pks
no_current == input.current_pk = None
                 \/ \A i \in 1..Len(input.all_pks) : input.all_pks[i] # input.current_pk

\* C11: for every key list and limit m >= 1, when the current key is None or
\* not in the list, limit_pks_around_current returns the first min(len, m) keys
C11_PrefixWhenNoCurrent ==
    (last.op = "limit_pks_around_current"
        /\ max_pk_count_in_force >= 1
        /\ no_current) =>
        last.ret = SubSeq(input.all_pks, 1,
                          Min(Len(input.all_pks), max_pk_count_in_force))

\* three keys, limit 2, a current key that is not in the list: the first two
C11_Witness ==
    /\ last.op = "limit_pks_around_current"
    /\ Len(input.all_pks) = 3
    /\ max_pk_count_in_force = 2
    /\ input.current_pk = "99"
    /\ last.ret = SubSeq(input.all_pks, 1, 2)

\* C12: for every key list, current key in the list, window w >= 0 and limit
\* m >= 1, the result of limit_pks_around_current contains the current key and
\* has length min(len, m)
C12_ContainsCurrentFullLength ==
    (last.op = "limit_pks_around_current"
        /\ max_pk_count_in_force >= 1
        /\ ~no_current) =>
        /\ \E i \in 1..Len(last.ret) : last.ret[i] = input.current_pk
        /\ Len(last.ret) = Min(Len(input.all_pks), max_pk_count_in_force)

\* the entry the store wrote
written_entry == session[key_of(last.nav_token)]

\* C13: every entry written by store_navigation_pks has total_count = the number
\* of keys supplied, limited = (len(pks) < total_count) and, when
\* max_pk_count > 0, len(pks) <= max_pk_count; a list of more keys than
\* max_pk_count stored with no current key keeps the first max_pk_count keys,
\* with limited true and total_count the full number
C13_EntryCounts ==
    last.op = "store_navigation_pks" =>
        /\ written_entry.total_count = Len(input.all_pks)
        /\ written_entry.limited <=> Len(written_entry.pks) < written_entry.total_count
        /\ max_pk_count_in_force > 0 =>
               Len(written_entry.pks) <= max_pk_count_in_force
        /\ (/\ input.current_pk = None
            /\ max_pk_count_in_force > 0
            /\ Len(input.all_pks) > max_pk_count_in_force) =>
               /\ written_entry.pks = SubSeq(input.all_pks, 1, max_pk_count_in_force)
               /\ written_entry.limited
               /\ written_entry.total_count = Len(input.all_pks)

\* three keys stored with max_pk_count 2 and no current key: the first two
C13_Witness ==
    /\ last.op = "store_navigation_pks"
    /\ input.all_pks = <<"10", "20", "30">>
    /\ input.current_pk = None
    /\ max_pk_count_in_force = 2
    /\ written_entry.pks = <<"10", "20">>
    /\ written_entry.limited
    /\ written_entry.total_count = 3

\* the request's token has an entry that has not expired
live_entry == has_entry(req_token) /\ is_live(key_of(req_token))

\* the key list of the request's entry
entry_pks == session[key_of(req_token)].pks

\* the places (from 1) of the key c in the list K
places(K, c) == {i \in 1..Len(K) : K[i] = c}

first_place(K, c) == CHOOSE i \in places(K, c) : \A j \in places(K, c) : i <= j

\* C14: for a live entry with key list K and current key c, get_next_pk returns
\* the key right after c, or None when c is last or not in K; get_previous_pk
\* returns the key right before c, or None when c is first or not in K
C14_NextPrevious ==
    (last.op \in {"get_next_pk", "get_previous_pk"}
        /\ live_entry
        /\ last.object_pk # None) =>
        LET K == entry_pks
            c == last.object_pk
        IN  /\ last.out.exc = None
            /\ last.op = "get_next_pk" =>
                   last.out.ret =
                       IF places(K, c) = {} \/ first_place(K, c) = Len(K)
                       THEN None
                       ELSE K[first_place(K, c) + 1]
            /\ last.op = "get_previous_pk" =>
                   last.out.ret =
                       IF places(K, c) = {} \/ first_place(K, c) = 1
                       THEN None
                       ELSE K[first_place(K, c) - 1]

\* the next key of the last key of a live entry is None
C14_Witness ==
    /\ last.op = "get_next_pk"
    /\ live_entry
    /\ Len(entry_pks) >= 2
    /\ last.object_pk = entry_pks[Len(entry_pks)]
    /\ last.out = Returns(None)

\* the view's record is one of the keys of the request's live entry
current_in_entry ==
    /\ live_entry
    /\ last.object_pk # None
    /\ places(entry_pks, last.object_pk) # {}

\* C15 as stated: get_current_position returns (i, n) with i the 1-based index of
\* the current key and n the number of keys, (None, None) when the key is not in
\* the list or there is no entry
C15_OneBasedPosition ==
    last.op = "get_current_position" =>
        /\ last.out.exc = None
        /\ last.out.ret =
               IF current_in_entry
               THEN <<first_place(entry_pks, last.object_pk), Len(entry_pks)>>
               ELSE <<NoneInt, NoneInt>>

\* C15: get_current_position returns (i, n) with i the 0-based index of the
\* current key and n the number of keys, (None, None) when the key is not in the
\* list or there is no entry; the position get_context_data presents is 1-based
\* (current = i + 1, total = n), and None in those cases
C15_ZeroBasedPositionOneBasedContext ==
    /\ last.op = "get_current_position" =>
           /\ last.out.exc = None
           /\ last.out.ret =
                  IF current_in_entry
                  THEN <<first_place(entry_pks, last.object_pk) - 1, Len(entry_pks)>>
                  ELSE <<NoneInt, NoneInt>>
    /\ (last.op = "get_context_data"
           /\ last.navigation_enabled
           /\ last.out.exc = None) =>
           last.out.ret.save_and_next.position =
               IF current_in_entry
               THEN [current |-> first_place(entry_pks, last.object_pk),
                     total |-> Len(entry_pks)]
               ELSE NoneDict

\* the context of the edit view of the second of three keys: position 2 of 3
C15_Witness ==
    /\ last.op = "get_context_data"
    /\ live_entry
    /\ entry_pks = <<"10", "20", "30">>
    /\ last.object_pk = "20"
    /\ last.out.exc = None
    /\ last.out.ret.save_and_next.position = [current |-> 2, total |-> 3]

\* the key after the view's record in the request's entry
next_in_entry == entry_pks[first_place(entry_pks, last.object_pk) + 1]

\* the request's query string without page and per_page
kept_query ==
    "nav_token=" \o last.GET.nav_token
        \o (IF "q" \in DOMAIN last.GET THEN "&q=" \o last.GET.q ELSE "")

\* C16: once a list view has stored the keys K under the token T, the POST of
\* the edit form of K[i] (i not last) with nav_token = T and save_and_next,
\* before the entry expires, redirects to the URL of the record K[i+1] (a record
\* that resolves), with the request's query parameters except page and per_page,
\* among them nav_token = T, so the request it redirects to reads the same list
C16_SaveAndNextWalks ==
    (last.op = "form_valid"
        /\ last.navigation_enabled
        /\ "save_and_next" \in DOMAIN last.POST
        /\ current_in_entry
        /\ first_place(entry_pks, last.object_pk) < Len(entry_pks)
        /\ last.lookups[next_in_entry].status = "found") =>
        /\ last.out.exc = None
        /\ last.out.ret = last.lookups[next_in_entry].url \o "?" \o kept_query
        /\ get_navigation_pks(session,
                              EditRequest(dict_del(last.GET, {"page", "per_page"})),
                              now) = entry_pks

\* save_and_next on the second of three keys, page and per_page in the request
C16_Witness ==
    /\ last.op = "form_valid"
    /\ "save_and_next" \in DOMAIN last.POST
    /\ live_entry
    /\ last.GET = [nav_token |-> "a", q |-> "x", page |-> "2", per_page |-> "10"]
    /\ last.object_pk = "20"
    /\ last.out = Returns("/orders/30/edit/?nav_token=a&q=x")

\* the request has a non-empty next parameter in q (its GET or its POST)
has_next(q) == "next" \in DOMAIN q /\ Truthy(q.next)

\* C17: get_close_url returns the referrer_url of the request's (live) entry
\* when set, whatever the next parameter; else the next parameter (of GET, else
\* of POST); else the list URL "<app_label>:<model_name>_list" when it
\* resolves; else "/"
C17_CloseUrlPriority ==
    last.op = "get_close_url" =>
        last.ret =
            IF live_entry /\ Truthy(session[key_of(req_token)].referrer_url)
            THEN session[key_of(req_token)].referrer_url
            ELSE IF has_next(last.GET) THEN last.GET.next
            ELSE IF has_next(last.POST) THEN last.POST.next
            ELSE IF last.list_url # None THEN last.list_url
            ELSE "/"

\* a live entry and a next parameter in both GET and POST: the entry's URL wins
C17_Witness ==
    /\ last.op = "get_close_url"
    /\ live_entry
    /\ has_next(last.GET)
    /\ has_next(last.POST)
    /\ last.ret = ListUrl
    /\ last.ret # last.GET.next

\* C18: get_navigation_url never raises: whatever goes wrong while the key is
\* resolved to a URL (record deleted, lookup error, URL not derivable) it
\* returns None; and a next or previous key whose URL is None is presented by
\* get_context_data as not available
C18_NeverRaisesUnavailable ==
    /\ last.op = "get_navigation_url" =>
           /\ last.out.exc = None
           /\ last.lookup.status # "found" => last.out.ret = None
    /\ (last.op = "get_context_data"
           /\ last.navigation_enabled
           /\ last.out.exc = None) =>
           /\ last.out.ret.save_and_next.next.url = None =>
                  ~last.out.ret.save_and_next.next.available
           /\ last.out.ret.save_and_next.previous.url = None =>
                  ~last.out.ret.save_and_next.previous.available

\* the entry a request of worker w builds at time t
entry_of(w, t) ==
    [pks |-> SubSeq(WorkerPks[w], 1,
                    Min(Len(WorkerPks[w]), conf.NAVIGATION_MAX_PK_COUNT)),
     timestamp |-> t,
     total_count |-> Len(WorkerPks[w]),
     limited |-> Len(WorkerPks[w]) > conf.NAVIGATION_MAX_PK_COUNT,
     referrer_url |-> WorkerUri[w]]

\* C19: two requests of one client that overlap (each loads the session, runs
\* store_navigation_pks and saves the whole session): the stored session is
\* always the one saved by the request that saved last, every entry in it is
\* the whole entry one request built, and it never holds more than
\* max_contexts entries
C19_LastSaveWins ==
    /\ run.saved_by # 0 => session = run.saved
    /\ \A key \in nav_keys(session) :
           \E w \in Workers, t \in 0..now : session[key] = entry_of(w, t)
    /\ Cardinality(nav_keys(session)) <= conf.NAVIGATION_MAX_CONTEXTS

\* two overlapping requests under different tokens have both saved, there was
\* room for both entries and nothing expired, yet one of the entries is lost
C19_Witness ==
    /\ run.requests = 2
    /\ \A w \in Workers : run.pc[w] = "idle" /\ run.nav_token[w] # None
    /\ run.nav_token[1] # run.nav_token[2]
    /\ conf.NAVIGATION_MAX_CONTEXTS >= 2
    /\ now = 0
    /\ \E w \in Workers : key_of(run.nav_token[w]) \notin DOMAIN session
    /\ \E w \in Workers : key_of(run.nav_token[w]) \in DOMAIN session

\* the per_page parameter of the request: that of GET, else that of POST
request_per_page ==
    IF "per_page" \in DOMAIN last.GET /\ last.GET.per_page # ""
    THEN last.GET.per_page
    ELSE IF "per_page" \in DOMAIN last.POST THEN last.POST.per_page
    ELSE ""

\* the integer each parameter value of the model is; NoneInt: not an integer
param_int(v) ==
    CASE v \in {"25", " 25"} -> 25
      [] v = "10" -> 10
      [] v = "100" -> 100
      [] v = "7" -> 7
      [] OTHER -> NoneInt

\* the preference the session held when the call began
stored_preference ==
    dict_get(last.before, get_per_page_session_key(last.view), NoneInt)

allowed(n) == \E i \in 1..Len(last.view.per_page_options) :
                  last.view.per_page_options[i] = n

\* C20: get_paginate_by returns the request's per_page parameter (of GET, else
\* of POST) when it is an integer in per_page_options; else the preference
\* stored in the session when that is in per_page_options; else the view's
\* paginate_by when set (not None, not 0); else default_per_page
C20_PaginateByPriority ==
    last.op = "get_paginate_by" =>
        last.ret =
            IF allowed(param_int(request_per_page))
            THEN param_int(request_per_page)
            ELSE IF allowed(stored_preference) THEN stored_preference
            ELSE IF last.view.paginate_by \notin {NoneInt, 0}
            THEN last.view.paginate_by
            ELSE last.view.default_per_page

\* the parameter 25 wins over a stored preference of 10 and over paginate_by
C20_Witness ==
    /\ last.op = "get_paginate_by"
    /\ request_per_page = "25"
    /\ stored_preference = 10
    /\ last.view.paginate_by = 75
    /\ last.ret = 25
    /\ session[get_per_page_session_key(last.view)] = 25

\* C21: a valid per_page parameter is written to the session under the view's
\* per-page key, and a later request of the session without a per_page
\* parameter is answered with the stored value; a parameter that is not a
\* number or not in per_page_options is ignored and leaves the session as it was
C21_PreferencePersists ==
    last.op = "get_paginate_by" =>
        /\ allowed(param_int(request_per_page)) =>
               /\ session = dict_set(last.before,
                                     get_per_page_session_key(last.view),
                                     param_int(request_per_page))
               /\ last.ret = param_int(request_per_page)
        /\ ~allowed(param_int(request_per_page)) => session = last.before
        /\ (request_per_page = "" /\ allowed(stored_preference)) =>
               last.ret = stored_preference

\* a request without a parameter is answered with the 10 an earlier request
\* stored, not with the view's paginate_by
C21_Witness ==
    /\ last.op = "get_paginate_by"
    /\ last.GET = EmptyDict
    /\ last.POST = EmptyDict
    /\ stored_preference = 10
    /\ last.view.paginate_by = 75
    /\ last.ret = 10

\* the standard actions of the constructed table that are enabled and have no
\* URL name, neither in the action's dictionary nor in <name>_action_url_name
unnamed_actions ==
    {a \in {"view", "edit", "delete"} :
        LET t == last.table
            on == CASE a = "view" -> t.enable_view_action
                    [] a = "edit" -> t.enable_edit_action
                    [] a = "delete" -> t.enable_delete_action
            dict == CASE a = "view" -> t.view_action
                      [] a = "edit" -> t.edit_action
                      [] a = "delete" -> t.delete_action
            attr == CASE a = "view" -> t.view_action_url_name
                      [] a = "edit" -> t.edit_action_url_name
                      [] a = "delete" -> t.delete_action_url_name
        IN  on /\ dict_get(dict, "url_name", None) = None /\ attr = None}

\* C22: a table with an actions column whose view, edit or delete action is
\* enabled but has no URL name fails at construction with ImproperlyConfigured;
\* no action with url_name None is built
C22_MissingUrlNameFails ==
    (last.op = "ActionsColumnMixin.__init__"
        /\ last.table.has_actions_column
        /\ unnamed_actions # {}) =>
        last.out.exc = "ImproperlyConfigured"

\* the step is a call of cleanup_expired_navigation_data
cleanup_step == last = Idle /\ last'.op = "cleanup_expired_navigation_data"

\* the lazy guard: no limit, or fewer entries under the prefix than the limit
under_limit ==
    \/ conf.NAVIGATION_MAX_CONTEXTS = 0
    \/ Cardinality(nav_keys(session)) < conf.NAVIGATION_MAX_CONTEXTS

\* C23: cleanup_expired_navigation_data with force false deletes and changes
\* nothing when max_contexts is 0 or fewer navigation entries than max_contexts
\* are stored, expired entries included; with force true its body runs (no
\* expired entry is left)
C23_LazyTrigger ==
    [][cleanup_step =>
          /\ (~last'.force /\ under_limit) => session' = session
          /\ last'.force =>
                 \A key \in nav_keys(session') :
                     now - session'[key].timestamp <= conf.NAVIGATION_SESSION_TIMEOUT]_vars

\* an unforced cleanup under the limit has left an expired entry in the store
C23_Witness ==
    /\ last.op = "cleanup_expired_navigation_data"
    /\ ~last.force
    /\ under_limit
    /\ conf.NAVIGATION_MAX_CONTEXTS > 0
    /\ last.removed = {}
    /\ \E key \in nav_keys(session) : ~is_live(key)

\* the live entries the cleanup step deletes
evicted == live_keys \ DOMAIN session'

\* C24: when the entries that remain after the expiry pass number
\* c >= max_contexts > 0, cleanup deletes exactly c - max_contexts + 1 of them,
\* those with the smallest timestamps, and nothing else: max_contexts - 1
\* entries are left, unchanged
C24_EvictsOldest ==
    [][(cleanup_step
          /\ conf.NAVIGATION_MAX_CONTEXTS > 0
          /\ Cardinality(live_keys) >= conf.NAVIGATION_MAX_CONTEXTS) =>
          /\ Cardinality(evicted) =
                 Cardinality(live_keys) - conf.NAVIGATION_MAX_CONTEXTS + 1
          /\ \A a \in evicted, b \in live_keys \ evicted :
                 session[a].timestamp <= session[b].timestamp
          /\ nav_keys(session') = live_keys \ evicted
          /\ Cardinality(nav_keys(session')) = conf.NAVIGATION_MAX_CONTEXTS - 1
          /\ \A key \in DOMAIN session' : session'[key] = session[key]
          /\ (DOMAIN session) \ (DOMAIN session') \subseteq nav_keys(session)]_vars

\* a cleanup at time 0, when nothing has expired, has deleted two entries
C24_Witness ==
    /\ last.op = "cleanup_expired_navigation_data"
    /\ now = 0
    /\ Cardinality(last.removed) >= 2
    /\ conf.NAVIGATION_MAX_CONTEXTS > 0
    /\ Cardinality(nav_keys(session)) = conf.NAVIGATION_MAX_CONTEXTS - 1

\* the window in force: the view's navigation_context_window, or the setting
context_window_in_force ==
    IF input.navigation_context_window # NoneInt
    THEN input.navigation_context_window
    ELSE conf.NAVIGATION_CONTEXT_WINDOW

\* the keys K[lo], ..., K[hi - 1] of a list K indexed from 0
slice_of(K, lo, hi) == [j \in 1..(hi - lo) |-> K[lo + j]]

C26_CleanupThenWrite ==
    [][(last = Idle /\ last'.op = "store_navigation_pks") =>
           IF last'.stored
           THEN /\ written_key \in DOMAIN session'
                /\ \E cleaned \in cleanup_expired_navigation_data(session, now, FALSE) :
                       session' = dict_set(cleaned, written_key, session'[written_key])
                /\ now' - session'[written_key].timestamp
                       <= conf.NAVIGATION_SESSION_TIMEOUT
                /\ session'[written_key].pks =
                       limit_pks_around_current(StoreView(TRUE), Pks, None)
           ELSE session' = session]_vars

\* a store under a token with max_contexts 1, at time 2 or later: the only
\* entry is the one just written
C26_Witness ==
    /\ last.op = "store_navigation_pks"
    /\ last.stored
    /\ last.nav_token # None
    /\ conf.NAVIGATION_MAX_CONTEXTS = 1
    /\ nav_keys(session) = {key_of(last.nav_token)}
    /\ session[key_of(last.nav_token)].timestamp = now
    /\ now >= 2

\* the post-save branch the POST selects: the first of the four names, in the
\* order of the code, that the POST carries
chosen_branch ==
    IF "save_and_next" \in DOMAIN last.POST THEN "next"
    ELSE IF "save_and_previous" \in DOMAIN last.POST THEN "previous"
    ELSE IF "save_and_continue" \in DOMAIN last.POST THEN "continue"
    ELSE IF "save_and_close" \in DOMAIN last.POST THEN "close"
    ELSE "none"

\* the key before the view's record in the request's entry
previous_in_entry == entry_pks[first_place(entry_pks, last.object_pk) - 1]

\* the neighbouring key the chosen branch goes to, None when there is none
target_pk ==
    IF ~current_in_entry THEN None
    ELSE IF chosen_branch = "next"
              /\ first_place(entry_pks, last.object_pk) < Len(entry_pks)
         THEN next_in_entry
    ELSE IF chosen_branch = "previous" /\ first_place(entry_pks, last.object_pk) > 1
         THEN previous_in_entry
    ELSE None

\* what the lookup of the target record does
target_status == IF target_pk = None THEN "none" ELSE last.lookups[target_pk].status

\* the response of the underlying view
default_response == "/orders/saved/"

\* where save_and_close goes, for the list URL of the edit views
close_target ==
    IF live_entry /\ Truthy(session[key_of(req_token)].referrer_url)
    THEN session[key_of(req_token)].referrer_url
    ELSE IF has_next(last.GET) THEN last.GET.next
    ELSE IF has_next(last.POST) THEN last.POST.next
    ELSE "/orders/"

C28_DeletesOnlyWhenNeeded ==
    [][(last = Idle /\ last'.op \in StoreOps /\ last'.stored) =>
           \A key \in live_keys \ {written_key} :
               key \notin DOMAIN session' =>
                   /\ conf.NAVIGATION_MAX_CONTEXTS > 0
                   /\ Cardinality(live_keys \cup {written_key})
                          > conf.NAVIGATION_MAX_CONTEXTS]_vars

\* the keys of the session that do not start with the navigation prefix
other_keys(sess) == DOMAIN sess \ nav_keys(sess)

\* C29: cleanup and store_navigation_pks never delete or change a session key
\* that does not start with the navigation prefix (the per-page and the
\* filter-toggle preference), whatever the number and age of the navigation
\* entries
C29_OtherKeysUntouched ==
    [][(last = Idle
           /\ last'.op \in {"store_navigation_pks", "cleanup_expired_navigation_data"}) =>
           \A key \in other_keys(session) :
               key \in DOMAIN session' /\ session'[key] = session[key]]_vars

\* a cleanup has removed navigation entries from a session that holds both
\* preferences
C29_Witness ==
    /\ last.op = "cleanup_expired_navigation_data"
    /\ last.removed # {}
    /\ get_per_page_session_key(OrdersView) \in other_keys(session)
    /\ get_toggle_filter_session_key(OrdersView) \in other_keys(session)
    /\ session[get_toggle_filter_session_key(OrdersView)] = TRUE

\* the keys of the entry the walk reads
walk_pks == session[key_of(WalkToken)].pks

pairwise_distinct(K) == \A i, j \in 1..Len(K) : i # j => K[i] # K[j]

\* the number of moves made so far
moves == Len(run.visited) - 1

\* C30: for a live entry whose keys are pairwise distinct, the walk that starts
\* at a key of the list and goes on to get_next_pk visits the keys after it
\* once each and in list order, never a key twice, and get_next_pk of the last
\* key is None: the walk ends after at most len(keys) - 1 moves
C30_WalkEnds ==
    (pairwise_distinct(walk_pks) /\ places(walk_pks, input.start) # {}) =>
        LET p == first_place(walk_pks, input.start)
        IN  /\ p + moves <= Len(walk_pks)
            /\ run.visited = SubSeq(walk_pks, p, p + moves)
            /\ pairwise_distinct(run.visited)
            /\ moves <= Len(walk_pks) - 1
            /\ is_live(key_of(WalkToken)) =>
                   (get_next_pk(session, EditRequest([nav_token |-> WalkToken]),
                                EditView(run.visited[Len(run.visited)]), now).ret = None
                       <=> p + moves = Len(walk_pks))

\* the walk from the first of three keys has ended at the third, after two
\* moves, with the entry still live
C30_Witness ==
    /\ walk_pks = <<"10", "20", "30">>
    /\ run.visited = <<"10", "20", "30">>
    /\ run.ended
    /\ is_live(key_of(WalkToken))

====
